---- MODULE Spec2Model ----
(***************************************************************************)
(* Model of the economic-indicators dashboard backend (server.js): the     *)
(* per-indicator series store, the momentum / growth endpoints, the two    *)
(* transformers calculateMomentum and calculateMonthOverMonthGrowth, the   *)
(* estimates file and the admin routes; of the dashboard pages (app.js)    *)
(* loading their indicators and their momentum chart; and of the update    *)
(* script (scripts/update-data.js).                                        *)
(*                                                                         *)
(* Specifications.                                                         *)
(*  - Spec          the server: refreshes rewriting files, requests served *)
(*  - SpecStored    requests over stored files; calls on missing arguments *)
(*  - SpecFetch     dashboard pages loading against the server             *)
(*  - SpecMomentum  calculateMomentum on every bounded series              *)
(*  - SpecTarget    calculateMomentum on different days and time zones     *)
(*  - SpecGrowth    calculateMonthOverMonthGrowth on every bounded series  *)
(*  - SpecSubmit    estimate submissions sent one after the other          *)
(*  - SpecEstimates estimate submissions and deletions handled together    *)
(*  - SpecAdmin     login and the routes behind verifyAdmin                *)
(*  - SpecChart     the momentum requests of a dashboard page              *)
(*  - SpecScript, SpecScriptFair  the update script, without and with      *)
(*                  fairness of its steps                                  *)
(*                                                                         *)
(* Representation.                                                         *)
(*  - An ISO date string "YYYY-MM-DD" is the tuple <<y, m, d>>; string     *)
(*    comparison is lexicographic comparison of the tuple, substring(0,7)  *)
(*    is <<y, m>>, and new Date(s) is the day number of the date.          *)
(*  - A stored value is an integer.  A computed JavaScript number is the   *)
(*    exact fraction <<n, d>> in lowest terms with d > 0; the non-finite   *)
(*    results of a division by zero are <<1, 0>> (Infinity), <<-1, 0>>     *)
(*    (-Infinity) and <<0, 0>> (NaN).  Rounding of doubles is not          *)
(*    modelled.                                                            *)
(***************************************************************************)
EXTENDS Integers, Sequences, FiniteSets, TLC

VARIABLES
    store,      \* indicator -> content of its data file
    writing,    \* the refresh whose fs.writeFile is under way, or NoWrite
    resp,       \* the response of the request handled last, or NoResp
    today,      \* the server's local calendar date (new Date())
    tzEast,     \* TRUE when the server's time zone is ahead of UTC
    arg,        \* the arguments of a transformer call
    ret,        \* the value the call returned
    pc,         \* "ready" before a transformer call, "done" after it;
                \* "server" while the server runs
    fetching,   \* the refresh requests whose provider fetch is in flight
    dash,       \* dashboard page -> where its loadAllData stands, the
                \* requests it has sent and what it holds and shows
    estimates,  \* content of the estimates file
    clock,      \* Date.now() of the server, in milliseconds
    reqs,       \* estimate request being handled -> where its handler stands
    clients,    \* the senders of estimate requests: how many submissions
                \* they make, whether they wait for the answer before the
                \* next request, and the answers they have received
    admin,      \* ADMIN_PASSWORD, the tokens /api/auth/login has issued and
                \* the admin request answered last
    news,       \* content of the news file
    chart,      \* the momentum chart of a dashboard page: the period
                \* selected, the requests out, the data held and what shows
    script      \* the update-data script: where main stands, its counters,
                \* the indicators tried and the exit code

serverVars ==
    <<store, writing, resp, today, tzEast, arg, ret, pc, fetching, dash>>

estimateVars == <<estimates, clock, reqs, clients>>

adminVars == <<admin, news>>

\* The state of everything but the indicator store and the dashboard pages.
restVars == <<estimateVars, adminVars, chart, script>>

vars == <<store, writing, resp, today, tzEast, arg, ret, pc, fetching, dash,
          estimates, clock, reqs, clients, admin, news, chart, script>>

(***************************************************************************)
(* Bounds of the model.                                                    *)
(***************************************************************************)
MaxLen == 3

MaxFetchLen == 3

\* The months of the longest stored series.
MaxMonths == 26

\* The indicators that have a stored file when the server starts.
MaxStored == 3

\* The rows of the series the baseline date is looked up in.
MaxTargetLen == 2

\* The dashboard pages open at the same time.
MaxDashboards == 2

\* The estimate requests the server handles at the same time, and the
\* requests sent when they overlap.
MaxRequests == 2

\* The milliseconds that pass while overlapping estimate requests are handled.
MaxClock == 1

\* The momentum requests a dashboard page sends.
MaxMomentumRequests == 3

\* The estimate submissions sent one after the other.
MaxSubmissions == 102

FetchDates ==
    { <<2024, 1, 30>>, <<2024, 1, 31>>, <<2024, 2, 1>>, <<2024, 2, 29>> }

DateDomain ==
    { <<2023, 12, 29>>, <<2024, 1, 30>>, <<2024, 1, 31>>,
      <<2024, 2, 1>>, <<2024, 2, 29>>, <<2024, 4, 1>> }

ValueDomain == {0, 100, 110}

Todays == { <<2024, 3, 15>> }

Periods == {"1m", "6m", "1y", "2y", "3y", "4y", "5y", "other"}

\* The days on which the baseline date is computed: first, middle and last
\* days of months, around the turn of the year, in and next to a leap year.
TargetTodays ==
    { <<2023, 3, 15>>, <<2024, 1, 1>>, <<2024, 1, 31>>, <<2024, 2, 29>>,
      <<2024, 3, 1>>, <<2024, 3, 15>>, <<2024, 3, 31>>, <<2024, 4, 30>>,
      <<2025, 4, 10>> }

\* The dates of the series the baseline is looked up in: month ends and the
\* days before them.
TargetDates ==
    { <<2023, 1, 30>>, <<2023, 1, 31>>, <<2023, 11, 29>>, <<2023, 11, 30>>,
      <<2023, 12, 30>>, <<2023, 12, 31>>, <<2024, 1, 30>>, <<2024, 1, 31>>,
      <<2024, 2, 28>>, <<2024, 2, 29>>, <<2025, 2, 27>>, <<2025, 2, 28>> }

\* The period parameters of the momentum requests ("" is a request without
\* one).
Queries == {"", "1m", "6m", "other"}

(***************************************************************************)
(* JavaScript values.                                                      *)
(***************************************************************************)
Null == <<>>
Undefined == <<0>>
NaN == <<0, 0>>

\* An argument the caller did not pass, or a property the parsed JSON does not
\* have (undefined in the place of an array).
NotGiven == [i \in {0} |-> 0]

\* !x for an array argument: true exactly when it is missing.
Falsy(x) == x = NotGiven

Abs(x) == IF x < 0 THEN -x ELSE x

Sign(x) == IF x < 0 THEN -1 ELSE IF x > 0 THEN 1 ELSE 0

RECURSIVE Gcd(_, _)
Gcd(a, b) == IF b = 0 THEN a ELSE Gcd(b, a % b)

\* The JavaScript number n / d.
Frac(n, d) ==
    IF d = 0 THEN <<Sign(n), 0>>
    ELSE LET g == Gcd(Abs(n), Abs(d))
             s == Sign(d)
         IN  <<(s * n) \div g, (s * d) \div g>>

IsFinite(x) == x[2] # 0

Hundred == Frac(100, 1)

(***************************************************************************)
(* Dates.                                                                  *)
(***************************************************************************)
IsLeap(y) == (y % 4 = 0 /\ y % 100 # 0) \/ y % 400 = 0

DaysInMonth(y, m) ==
    IF m = 2 THEN (IF IsLeap(y) THEN 29 ELSE 28)
    ELSE IF m \in {4, 6, 9, 11} THEN 30 ELSE 31

\* The empty string in the place of a date: new Date("") is an Invalid Date,
\* whose time value is NaN; "" sorts before every date and its substring(0, 7)
\* is "".
NotADate == <<0, 0, 0>>

\* !isNaN(new Date(s))
IsDate(s) == s # NotADate

\* s < t on ISO date strings.
StrLess(s, t) ==
    \/ s[1] < t[1]
    \/ s[1] = t[1] /\ s[2] < t[2]
    \/ s[1] = t[1] /\ s[2] = t[2] /\ s[3] < t[3]

\* new Date("YYYY-MM-DD") in days since 1970-01-01 (UTC midnight).
DayNumber(s) ==
    LET y   == IF s[2] <= 2 THEN s[1] - 1 ELSE s[1]
        era == y \div 400
        yoe == y - era * 400
        mp  == IF s[2] > 2 THEN s[2] - 3 ELSE s[2] + 9
        doy == (153 * mp + 2) \div 5 + s[3] - 1
        doe == yoe * 365 + yoe \div 4 - yoe \div 100 + doy
    IN  era * 146097 + doe - 719468

\* new Date(year, monthIndex, 0): local midnight of the last day of the month
\* before the (zero-based, possibly negative) monthIndex of year.
MonthEnd(year, monthIndex) ==
    LET t == year * 12 + monthIndex - 1
        y == t \div 12
        m == (t % 12) + 1
    IN  <<y, m, DaysInMonth(y, m)>>

\* date.toISOString().split('T')[0] of a local midnight: the UTC calendar date,
\* which is the day before in a time zone ahead of UTC.
ToISODate(local, east) ==
    IF east THEN <<local[1], local[2], local[3] - 1>> ELSE local

\* A slip of TargetDate: the year periods end in the month of today.
TargetDateSameMonth(now, period) ==
    LET y  == now[1]
        mi == now[2] - 1
    IN  CASE period = "1m" -> MonthEnd(y, mi - 1)
          [] period = "6m" -> MonthEnd(y, mi - 6)
          [] period = "1y" -> MonthEnd(y - 1, mi + 1)
          [] period = "2y" -> MonthEnd(y - 2, mi + 1)
          [] period = "3y" -> MonthEnd(y - 3, mi + 1)
          [] period = "4y" -> MonthEnd(y - 4, mi + 1)
          [] period = "5y" -> MonthEnd(y - 5, mi + 1)
          [] OTHER -> MonthEnd(y, mi)

\* The switch on period.
TargetDate(now, period) ==
    LET y  == now[1]
        mi == now[2] - 1
    IN  CASE period = "1m" -> MonthEnd(y, mi - 1)
          [] period = "6m" -> MonthEnd(y, mi - 6)
          [] period = "1y" -> MonthEnd(y - 1, mi)
          [] period = "2y" -> MonthEnd(y - 2, mi)
          [] period = "3y" -> MonthEnd(y - 3, mi)
          [] period = "4y" -> MonthEnd(y - 4, mi)
          [] period = "5y" -> MonthEnd(y - 5, mi)
          [] OTHER -> MonthEnd(y, mi)

(***************************************************************************)
(* calculateMomentum.                                                      *)
(***************************************************************************)
\* A slip of ScanBefore: a later index with the same difference replaces the
\* earlier one (<= in the place of <).
RECURSIVE ScanBeforeLast(_, _, _, _)
ScanBeforeLast(dates, target, i, acc) ==
    IF i > Len(dates) THEN acc
    ELSE LET diff == DayNumber(target) - DayNumber(dates[i])
         IN  IF IsDate(dates[i]) /\ diff >= 0 /\ (acc.inf \/ diff <= acc.minDiff)
             THEN ScanBeforeLast(dates, target, i + 1,
                                 [minDiff |-> diff, inf |-> FALSE, idx |-> i])
             ELSE ScanBeforeLast(dates, target, i + 1, acc)

\* First loop: the closest date on or before the baseline date.  idx = 0 is
\* the code's -1 and inf says that minDiff is still Infinity.  The difference
\* to an Invalid Date is NaN, and every comparison with NaN is false.
RECURSIVE ScanBefore(_, _, _, _)
ScanBefore(dates, target, i, acc) ==
    IF i > Len(dates) THEN acc
    ELSE LET diff == DayNumber(target) - DayNumber(dates[i])
         IN  IF IsDate(dates[i]) /\ diff >= 0 /\ (acc.inf \/ diff < acc.minDiff)
             THEN ScanBefore(dates, target, i + 1,
                             [minDiff |-> diff, inf |-> FALSE, idx |-> i])
             ELSE ScanBefore(dates, target, i + 1, acc)

\* A slip of ScanNearest: the farthest date is kept (> in the place of <).
RECURSIVE ScanFarthest(_, _, _, _)
ScanFarthest(dates, target, i, acc) ==
    IF i > Len(dates) THEN acc
    ELSE LET diff == Abs(DayNumber(dates[i]) - DayNumber(target))
         IN  IF IsDate(dates[i]) /\ (acc.inf \/ diff > acc.minDiff)
             THEN ScanFarthest(dates, target, i + 1,
                               [minDiff |-> diff, inf |-> FALSE, idx |-> i])
             ELSE ScanFarthest(dates, target, i + 1, acc)

\* Second loop: the closest date at all.
RECURSIVE ScanNearest(_, _, _, _)
ScanNearest(dates, target, i, acc) ==
    IF i > Len(dates) THEN acc
    ELSE LET diff == Abs(DayNumber(dates[i]) - DayNumber(target))
         IN  IF IsDate(dates[i]) /\ (acc.inf \/ diff < acc.minDiff)
             THEN ScanNearest(dates, target, i + 1,
                              [minDiff |-> diff, inf |-> FALSE, idx |-> i])
             ELSE ScanNearest(dates, target, i + 1, acc)

NoBaseline == [minDiff |-> 0, inf |-> TRUE, idx |-> 0]

\* A slip of BaselineIndex: the second loop is left out.
BaselineIndexNoFallback(dates, target) ==
    ScanBefore(dates, target, 1, NoBaseline).idx

BaselineIndex(dates, target) ==
    LET before == ScanBefore(dates, target, 1, NoBaseline)
    IN  IF before.idx = 0
        THEN ScanNearest(dates, target, 1, before).idx
        ELSE before.idx

\* A slip of Rebase: the ratio without the factor 100.
RebaseNoPercent(value, baselineValue) == Frac(value, baselineValue)

\* (values[i] / baselineValue) * 100
Rebase(value, baselineValue) == Frac(100 * value, baselineValue)

\* A slip of Normalized: the values are taken from the start of the input
\* instead of from the baseline index.
NormalizedMisaligned(dates, values, baselineIndex) ==
    [dates  |-> SubSeq(dates, baselineIndex, Len(dates)),
     values |-> [k \in 1..(Len(dates) - baselineIndex + 1) |->
                   Rebase(values[k], values[baselineIndex])],
     baselineDate |-> dates[baselineIndex]]

\* The normalisation loop and the returned object.
Normalized(dates, values, baselineIndex) ==
    [dates  |-> SubSeq(dates, baselineIndex, Len(dates)),
     values |-> [k \in 1..(Len(dates) - baselineIndex + 1) |->
                   Rebase(values[baselineIndex + k - 1], values[baselineIndex])],
     baselineDate |-> dates[baselineIndex]]

calculateMomentum(dates, values, period, now, east) ==
    IF Falsy(dates) \/ Falsy(values) \/ Len(dates) = 0
    THEN [dates |-> <<>>, values |-> <<>>, baselineDate |-> Null]
    ELSE LET baselineDate  == ToISODate(TargetDate(now, period), east)
             baselineIndex == BaselineIndex(dates, baselineDate)
         IN  IF baselineIndex = 0 \/ baselineIndex > Len(dates)
             THEN [dates |-> <<>>, values |-> <<>>, baselineDate |-> Undefined]
             ELSE Normalized(dates, values, baselineIndex)

(***************************************************************************)
(* calculateMonthOverMonthGrowth.                                          *)
(***************************************************************************)
\* dates[i].substring(0, 7)
YearMonth(date) == <<date[1], date[2]>>

\* A slip of MonthlyData: an observation with the date already kept replaces
\* the one kept (>= in the place of >).
RECURSIVE MonthlyDataOverwriting(_, _, _, _)
MonthlyDataOverwriting(dates, values, i, acc) ==
    IF i > Len(dates) THEN acc
    ELSE LET yearMonth == YearMonth(dates[i])
         IN  IF yearMonth \notin DOMAIN acc
                \/ ~StrLess(dates[i], acc[yearMonth].date)
             THEN MonthlyDataOverwriting(dates, values, i + 1,
                     (yearMonth :> [date |-> dates[i], value |-> values[i]])
                         @@ acc)
             ELSE MonthlyDataOverwriting(dates, values, i + 1, acc)

\* First loop: monthlyData after the observations i..Len(dates) have been
\* added to acc, a function from the year-months seen to {date, value}.
RECURSIVE MonthlyData(_, _, _, _)
MonthlyData(dates, values, i, acc) ==
    IF i > Len(dates) THEN acc
    ELSE LET yearMonth == YearMonth(dates[i])
         IN  IF yearMonth \notin DOMAIN acc
                \/ StrLess(acc[yearMonth].date, dates[i])
             THEN MonthlyData(dates, values, i + 1,
                     (yearMonth :> [date |-> dates[i], value |-> values[i]])
                         @@ acc)
             ELSE MonthlyData(dates, values, i + 1, acc)

\* Object.keys(monthlyData).sort()
RECURSIVE SortedMonths(_)
SortedMonths(months) ==
    IF months = {} THEN <<>>
    ELSE LET first == CHOOSE a \in months :
                         \A b \in months : a = b \/ StrLess(<<a[1], a[2], 0>>,
                                                           <<b[1], b[2], 0>>)
         IN  <<first>> \o SortedMonths(months \ {first})

monthNames ==
    <<"Jan", "Feb", "Mar", "Apr", "May", "Jun",
      "Jul", "Aug", "Sep", "Oct", "Nov", "Dec">>

\* `${monthNames[parseInt(month) - 1]} ${year}` as <<name, year>>.
FormattedDate(yearMonth) == <<monthNames[yearMonth[2]], yearMonth[1]>>

\* A slip of GrowthRate: the change relative to the current value.
GrowthRateOverCurrent(currentValue, previousValue) ==
    Frac(100 * (currentValue - previousValue), currentValue)

\* ((currentValue - previousValue) / previousValue) * 100
GrowthRate(currentValue, previousValue) ==
    Frac(100 * (currentValue - previousValue), previousValue)

\* A slip of PreviousMonth: every month is compared with the first one.
PreviousMonthFirst(sortedMonths, i) == sortedMonths[1]

\* sortedMonths[i - 1]
PreviousMonth(sortedMonths, i) == sortedMonths[i - 1]

\* A slip of GrowthIndices: the loop stops one month early.
GrowthIndicesShort(sortedMonths) == 2..(Len(sortedMonths) - 1)

\* The indices of the second loop (for i = 1; i < sortedMonths.length),
\* counted from 1.
GrowthIndices(sortedMonths) == 2..Len(sortedMonths)

calculateMonthOverMonthGrowth(dates, values) ==
    IF Falsy(dates) \/ Falsy(values) \/ Len(dates) = 0 THEN [dates |-> <<>>, values |-> <<>>]
    ELSE LET monthlyData  == MonthlyData(dates, values, 1, <<>>)
             sortedMonths == SortedMonths(DOMAIN monthlyData)
             rows         == GrowthIndices(sortedMonths)
             n            == Cardinality(rows)
         IN  [dates  |-> [k \in 1..n |-> FormattedDate(sortedMonths[k + 1])],
              values |-> [k \in 1..n |->
                            GrowthRate(
                                monthlyData[sortedMonths[k + 1]].value,
                                monthlyData[PreviousMonth(sortedMonths, k + 1)].value)]]

(***************************************************************************)
(* Series as the providers return them: dates non-decreasing, one value    *)
(* per date.                                                               *)
(***************************************************************************)
NonDecreasing(dates) ==
    \A i \in 1..(Len(dates) - 1) : ~StrLess(dates[i + 1], dates[i])

DateSeqs(n) ==
    {ds \in UNION {[1..k -> DateDomain] : k \in 0..n} : NonDecreasing(ds)}

SeriesUpTo(n) ==
    UNION {{[dates |-> ds, values |-> vs] : vs \in [1..Len(ds) -> ValueDomain]} :
           ds \in DateSeqs(n)}

(***************************************************************************)
(* The server's state before any request.                                  *)
(***************************************************************************)
Missing == [state |-> "missing"]
Truncated == [state |-> "truncated"]
NoWrite == [busy |-> FALSE]
NoResp == [kind |-> "none", period |-> "", success |-> FALSE,
           data |-> <<>>, count |-> 0]
NoArg == [dates |-> <<>>, values |-> <<>>, period |-> "1m"]
NoRet == [dates |-> <<>>, values |-> <<>>, baselineDate |-> Null]

Indicators == <<"sp500", "treasury", "oil", "gold", "dollar">>

IndicatorSet == {Indicators[i] : i \in DOMAIN Indicators}

ServerIdle ==
    /\ store = [ind \in IndicatorSet |-> Missing]
    /\ writing = NoWrite
    /\ resp = NoResp

\* The pages of the dashboard (one EconomicDashboard each).
Dashboards == 1..MaxDashboards

\* at: "closed", "local" (waiting for GET /api/data/:indicator), "refresh"
\* (waiting for the POST of refreshData) or "idle"; i: the index of the
\* indicator of the loop; asked, posted: the indicators whose local file was
\* asked for and whose refresh was posted, in order; allData: the keys of
\* this.allData; errors: the indicators whose error element is shown.
Closed == [at |-> "closed", i |-> 0, asked |-> <<>>, posted |-> <<>>,
           allData |-> {}, errors |-> {}]

\* No page is open and the server has no provider request out.
NoDashboard ==
    /\ fetching = {}
    /\ dash = [d \in Dashboards |-> Closed]

\* The estimate requests in the server at the same time.
Requests == 1..MaxRequests

\* at: "none", "reading" (fs.readFile under way), "writing" (fs.writeFile
\* under way) or "answered"; op: "submit" or "delete"; name, given: the name
\* of the body and whether it has estimates; id: req.params.id of a delete,
\* newEstimate.id of a submission; allEstimates: the array read;
\* saving: the array handed to fs.writeFile; status, success: the answer.
NoRequest ==
    [at |-> "none", op |-> "", name |-> "", given |-> FALSE, id |-> 0,
     allEstimates |-> <<>>, saving |-> <<>>, status |-> 0, success |-> FALSE]

\* No estimates file, no estimate request and none to come.
NoEstimates ==
    /\ estimates = Missing
    /\ clock = 0
    /\ reqs = [r \in Requests |-> NoRequest]
    /\ clients = [most |-> 0, overlapping |-> FALSE,
                  accepted |-> <<>>, deleted |-> {}]

\* No Authorization header.
NoHeader == [scheme |-> "none", prefix |-> "", stamp |-> 0]

NoAdminRequest == [op |-> "none", header |-> NoHeader, status |-> 0]

\* No admin password is set, nobody has logged in, no news file.
NoAdmin ==
    /\ admin = [password |-> "", issued |-> {}, last |-> NoAdminRequest]
    /\ news = Missing

\* view: what the momentum section shows, "chart", "error", "loading" or
\* "none" before the page runs; momentumData: the period whose response
\* this.momentumData holds, "" for none; out: the requests without response,
\* each with the period it asked for; sent: how many were sent.
NoChart ==
    chart = [selected |-> "1m", out |-> {}, sent |-> 0,
             momentumData |-> "", view |-> "none"]

\* at: "idle" before main, "updating" (updateIndicator awaited), "waiting"
\* (the 3 s delay) or "exited"; i: the index of the indicator of the loop;
\* key: FRED_API_KEY; attempted: the indicators handed to updateIndicator;
\* saved: the files written; code: the exit code, -1 while running.
NotRun ==
    script = [at |-> "idle", i |-> 0, key |-> "", attempted |-> <<>>,
              saved |-> {}, successCount |-> 0, failCount |-> 0, code |-> -1]

RestIdle == NoEstimates /\ NoAdmin /\ NoChart /\ NotRun

(***************************************************************************)
(* GET /api/data/momentum.                                                 *)
(***************************************************************************)
\* fs.readFile and JSON.parse succeed and jsonData.dates can be read.
Readable(file) == file.state = "ok"

\* req.query.period || '1m'
BaselinePeriod(query) == IF query = "" THEN "1m" ELSE query

\* A slip of AfterRead: successCount counts every file read, also one whose
\* normalised series is empty.
AfterReadCountingAll(acc, indicator, file, normalized) ==
    IF Len(normalized.dates) > 0
    THEN [data |-> (indicator :> normalized) @@ acc.data,
          order |-> Append(acc.order, indicator),
          successCount |-> acc.successCount + 1]
    ELSE [acc EXCEPT !.successCount = acc.successCount + 1]

\* A slip of AfterRead: the indicator is added whatever its series holds.
AfterReadKeepingEmpty(acc, indicator, file, normalized) ==
    [data |-> (indicator :> normalized) @@ acc.data,
     order |-> Append(acc.order, indicator),
     successCount |-> acc.successCount + 1]

\* The body of the read loop after the transformer has returned: the
\* indicator is added and counted when its series is not empty.  order is
\* the insertion order of the keys of the data object.
AfterRead(acc, indicator, file, normalized) ==
    IF Len(normalized.dates) > 0
    THEN [data |-> (indicator :> normalized) @@ acc.data,
          order |-> Append(acc.order, indicator),
          successCount |-> acc.successCount + 1]
    ELSE acc

NothingRead == [data |-> <<>>, order |-> <<>>, successCount |-> 0]

\* The read loop over the indicators i..5; an indicator whose file cannot be
\* read or parsed is skipped by the catch.
RECURSIVE ReadMomentum(_, _, _, _, _, _)
ReadMomentum(st, period, now, east, i, acc) ==
    IF i > Len(Indicators) THEN acc
    ELSE LET indicator == Indicators[i]
             file      == st[indicator]
         IN  IF Readable(file)
             THEN ReadMomentum(st, period, now, east, i + 1,
                     AfterRead(acc, indicator, file,
                         calculateMomentum(file.dates, file.values,
                                           period, now, east)))
             ELSE ReadMomentum(st, period, now, east, i + 1, acc)

Elements(seq) == {seq[i] : i \in DOMAIN seq}

\* A slip of CommonDates: the dates of the first indicator only.
CommonDatesOfFirst(data, order) == Elements(data[order[1]].dates)

\* commonDates: the dates of the first indicator that every date set has.
CommonDates(data, order) ==
    {date \in Elements(data[order[1]].dates) :
        \A indicator \in DOMAIN data : date \in Elements(data[indicator].dates)}

\* The reduce over the dates of one indicator, from index i on.
RECURSIVE Filtered(_, _, _, _)
Filtered(dates, values, commonDates, i) ==
    IF i > Len(dates) THEN [dates |-> <<>>, values |-> <<>>]
    ELSE LET rest == Filtered(dates, values, commonDates, i + 1)
         IN  IF dates[i] \in commonDates
             THEN [dates |-> <<dates[i]>> \o rest.dates,
                   values |-> <<values[i]>> \o rest.values]
             ELSE rest

\* A slip of Aligned: the first common point of every series is dropped.
AlignedDroppingFirst(data, order) ==
    IF Len(order) = 0 THEN data
    ELSE LET commonDates == CommonDates(data, order)
         IN  [indicator \in DOMAIN data |->
                LET filtered == Filtered(data[indicator].dates,
                                         data[indicator].values, commonDates, 1)
                IN  [dates |-> IF filtered.dates = <<>> THEN <<>>
                               ELSE Tail(filtered.dates),
                     values |-> IF filtered.values = <<>> THEN <<>>
                                ELSE Tail(filtered.values),
                     baselineDate |-> data[indicator].baselineDate]]

\* A slip of Aligned: without a common date the series are left as they are.
AlignedUnlessDisjoint(data, order) ==
    IF Len(order) = 0 \/ CommonDates(data, order) = {} THEN data
    ELSE LET commonDates == CommonDates(data, order)
         IN  [indicator \in DOMAIN data |->
                LET filtered == Filtered(data[indicator].dates,
                                         data[indicator].values, commonDates, 1)
                IN  [dates |-> filtered.dates,
                     values |-> filtered.values,
                     baselineDate |-> data[indicator].baselineDate]]

\* The alignment step: every indicator keeps the points on common dates.
Aligned(data, order) ==
    IF Len(order) = 0 THEN data
    ELSE LET commonDates == CommonDates(data, order)
         IN  [indicator \in DOMAIN data |->
                LET filtered == Filtered(data[indicator].dates,
                                         data[indicator].values, commonDates, 1)
                IN  [dates |-> filtered.dates,
                     values |-> filtered.values,
                     baselineDate |-> data[indicator].baselineDate]]

MomentumResponse(st, query, now, east) ==
    LET read == ReadMomentum(st, BaselinePeriod(query), now, east, 1, NothingRead)
    IN  [kind    |-> "momentum",
         period  |-> BaselinePeriod(query),
         success |-> read.successCount > 0,
         data    |-> IF read.successCount > 0
                     THEN Aligned(read.data, read.order) ELSE read.data,
         count   |-> read.successCount]

(***************************************************************************)
(* GET /api/data/growth.                                                   *)
(***************************************************************************)
GrowthWindow == 24

\* array.slice(-n)
LastN(seq, n) ==
    IF Len(seq) > n THEN SubSeq(seq, Len(seq) - n + 1, Len(seq)) ELSE seq

RECURSIVE ReadGrowth(_, _, _)
ReadGrowth(st, i, acc) ==
    IF i > Len(Indicators) THEN acc
    ELSE LET indicator == Indicators[i]
             file      == st[indicator]
         IN  IF Readable(file)
             THEN ReadGrowth(st, i + 1,
                     AfterRead(acc, indicator, file,
                         calculateMonthOverMonthGrowth(file.dates, file.values)))
             ELSE ReadGrowth(st, i + 1, acc)

\* A slip of Windowed: every indicator is cut to the length of the shortest
\* series, as an alignment would.
WindowedToShortest(data) ==
    LET shortest == CHOOSE n \in {Len(data[i].dates) : i \in DOMAIN data} :
                        \A i \in DOMAIN data : n <= Len(data[i].dates)
    IN  [indicator \in DOMAIN data |->
            [dates  |-> LastN(data[indicator].dates, shortest),
             values |-> LastN(data[indicator].values, shortest)]]

\* Each indicator keeps its own last 24 months.
Windowed(data) ==
    [indicator \in DOMAIN data |->
        IF Len(data[indicator].dates) > GrowthWindow
        THEN [dates  |-> LastN(data[indicator].dates, GrowthWindow),
              values |-> LastN(data[indicator].values, GrowthWindow)]
        ELSE data[indicator]]

GrowthResponse(st) ==
    LET read == ReadGrowth(st, 1, NothingRead)
    IN  [kind    |-> "growth",
         period  |-> "",
         success |-> read.successCount > 0,
         data    |-> IF read.successCount > 0 THEN Windowed(read.data)
                     ELSE read.data,
         count   |-> read.successCount]

(***************************************************************************)
(* Spec: the server.  A refresh fetches a series and rewrites the          *)
(* indicator's file; fs.writeFile truncates the file before it writes, so  *)
(* a request served in between reads a file that does not parse.  One      *)
(* refresh is under way at a time and a response is sent before the next   *)
(* request is taken.  The server runs without a FRED key, in a time zone   *)
(* that is not ahead of UTC; both sides of UTC are covered for the         *)
(* transformer in SpecMomentum.                                            *)
(***************************************************************************)
\* The keys of the environment the server was started with.  Without a FRED
\* key the server warns and every FRED request is refused.
FRED_API_KEY == ""

\* DATA_SOURCES[indicator].type
SourceType(indicator) ==
    IF indicator \in {"sp500", "oil", "dollar"} THEN "fred" ELSE "yahoo"

\* fetchFromFRED / fetchFromYahoo return instead of throwing.
ProviderAnswers(indicator) ==
    SourceType(indicator) = "yahoo" \/ FRED_API_KEY # ""

IndexOf(indicator) == CHOOSE i \in DOMAIN Indicators : Indicators[i] = indicator

\* The provider's value of the k-th row it returns for an indicator.
Quote(indicator, date, k) == 100 * IndexOf(indicator) + 10 * k + (date[3] % 10)

\* fetchFromYahoo throws when it gets no row; fetchFromFRED returns what is
\* left of the observations.
FewestRows(indicator) == IF SourceType(indicator) = "yahoo" THEN 1 ELSE 0

\* The date columns a provider may return: rows in date order (a date may
\* repeat).
FetchDateSeqs ==
    {ds \in UNION {[1..k -> FetchDates] : k \in 0..MaxFetchLen} :
        NonDecreasing(ds)}

\* What a provider may return for each indicator.
FetchedOf ==
    [indicator \in IndicatorSet |->
        {[state |-> "ok", dates |-> ds,
          values |-> [k \in 1..Len(ds) |-> Quote(indicator, ds[k], k)]] :
            ds \in {d \in FetchDateSeqs : Len(d) >= FewestRows(indicator)}}]

Fetched(indicator) == FetchedOf[indicator]

Init ==
    /\ ServerIdle
    /\ NoDashboard
    /\ RestIdle
    /\ today \in Todays
    /\ tzEast = FALSE
    /\ arg = NoArg
    /\ ret = NoRet
    /\ pc = "server"

\* POST /api/data/:indicator/refresh up to the start of fs.writeFile.
RefreshFetched(indicator, fetchedData) ==
    /\ pc = "server"
    /\ resp = NoResp
    /\ ~writing.busy
    /\ ProviderAnswers(indicator)
    /\ store' = [store EXCEPT ![indicator] = Truncated]
    /\ writing' = [busy |-> TRUE, indicator |-> indicator, data |-> fetchedData]
    /\ UNCHANGED <<resp, today, tzEast, arg, ret, pc>>
    /\ UNCHANGED <<fetching, dash>>
    /\ UNCHANGED restVars

\* fs.writeFile completes and the refresh answers.
RefreshWritten ==
    /\ pc = "server"
    /\ resp = NoResp
    /\ writing.busy
    /\ store' = [store EXCEPT ![writing.indicator] = writing.data]
    /\ writing' = NoWrite
    /\ resp' = [kind |-> "refresh", period |-> "", success |-> TRUE,
                data |-> <<>>, count |-> 0]
    /\ UNCHANGED <<today, tzEast, arg, ret, pc>>
    /\ UNCHANGED <<fetching, dash>>
    /\ UNCHANGED restVars

\* A slip of RefreshFailed: the catch removes the stored file of the indicator.
RefreshFailedClearing(indicator) ==
    /\ pc = "server"
    /\ resp = NoResp
    /\ ~writing.busy
    /\ store' = [store EXCEPT ![indicator] = Missing]
    /\ resp' = [kind |-> "refresh", period |-> "", success |-> FALSE,
                data |-> <<>>, count |-> 0]
    /\ UNCHANGED <<writing, today, tzEast, arg, ret, pc>>
    /\ UNCHANGED <<fetching, dash>>
    /\ UNCHANGED restVars

\* The provider fails: the catch answers 500.
RefreshFailed(indicator) ==
    /\ pc = "server"
    /\ resp = NoResp
    /\ ~writing.busy
    /\ resp' = [kind |-> "refresh", period |-> "", success |-> FALSE,
                data |-> <<>>, count |-> 0]
    /\ UNCHANGED <<store, writing, today, tzEast, arg, ret, pc>>
    /\ UNCHANGED <<fetching, dash>>
    /\ UNCHANGED restVars

\* Names a request may carry that DATA_SOURCES and DATA_FILES do not have.
UnknownIndicators == {"bitcoin"}

\* POST /api/data/:indicator/refresh for a name without configuration: 404.
RefreshInvalid(indicator) ==
    /\ pc = "server"
    /\ resp = NoResp
    /\ indicator \notin IndicatorSet
    /\ resp' = [kind |-> "refresh", period |-> "", success |-> FALSE,
                data |-> <<>>, count |-> 0]
    /\ UNCHANGED <<store, writing, today, tzEast, arg, ret, pc>>
    /\ UNCHANGED <<fetching, dash>>
    /\ UNCHANGED restVars

\* A slip of MomentumRequest: the arrays read are consumed, which empties the
\* stored series of the indicators returned.
MomentumRequestConsuming(query) ==
    /\ pc = "server"
    /\ resp = NoResp
    /\ resp' = MomentumResponse(store, query, today, tzEast)
    /\ store' = [ind \in IndicatorSet |->
                   IF ind \in DOMAIN resp'.data
                   THEN [state |-> "ok", dates |-> <<>>, values |-> <<>>]
                   ELSE store[ind]]
    /\ UNCHANGED <<writing, today, tzEast, arg, ret, pc>>
    /\ UNCHANGED <<fetching, dash>>
    /\ UNCHANGED restVars

MomentumRequest(query) ==
    /\ pc = "server"
    /\ resp = NoResp
    /\ resp' = MomentumResponse(store, query, today, tzEast)
    /\ UNCHANGED <<store, writing, today, tzEast, arg, ret, pc>>
    /\ UNCHANGED <<fetching, dash>>
    /\ UNCHANGED restVars

GrowthRequest ==
    /\ pc = "server"
    /\ resp = NoResp
    /\ resp' = GrowthResponse(store)
    /\ UNCHANGED <<store, writing, today, tzEast, arg, ret, pc>>
    /\ UNCHANGED <<fetching, dash>>
    /\ UNCHANGED restVars

\* res.json: the response leaves the server.
ResponseSent ==
    /\ pc = "server"
    /\ resp # NoResp
    /\ resp' = NoResp
    /\ UNCHANGED <<store, writing, today, tzEast, arg, ret, pc>>
    /\ UNCHANGED <<fetching, dash>>
    /\ UNCHANGED restVars

Next ==
    \/ \E indicator \in IndicatorSet :
          \E fetchedData \in Fetched(indicator) :
              RefreshFetched(indicator, fetchedData)
    \/ RefreshWritten
    \/ \E indicator \in IndicatorSet : RefreshFailed(indicator)
    \/ \E indicator \in UnknownIndicators : RefreshInvalid(indicator)
    \/ \E query \in Queries : MomentumRequest(query)
    \/ GrowthRequest
    \/ ResponseSent

Spec == Init /\ [][Next]_vars

(***************************************************************************)
(* SpecMomentum: calculateMomentum applied to every bounded series.        *)
(***************************************************************************)
InitMomentum ==
    /\ ServerIdle
    /\ NoDashboard
    /\ RestIdle
    /\ today \in Todays
    /\ tzEast \in BOOLEAN
    /\ \E s \in SeriesUpTo(MaxLen), p \in Periods :
          arg = [dates |-> s.dates, values |-> s.values, period |-> p]
    /\ ret = NoRet
    /\ pc = "ready"

CallMomentum ==
    /\ pc = "ready"
    /\ ret' = calculateMomentum(arg.dates, arg.values, arg.period, today, tzEast)
    /\ pc' = "done"
    /\ UNCHANGED <<store, writing, resp, today, tzEast, arg>>
    /\ UNCHANGED <<fetching, dash>>
    /\ UNCHANGED restVars

NextMomentum == CallMomentum

SpecMomentum == InitMomentum /\ [][NextMomentum]_vars

(***************************************************************************)
(* SpecGrowth: calculateMonthOverMonthGrowth applied to every bounded      *)
(* series.                                                                 *)
(***************************************************************************)
InitGrowth ==
    /\ ServerIdle
    /\ NoDashboard
    /\ RestIdle
    /\ today \in Todays
    /\ tzEast = FALSE
    /\ \E s \in SeriesUpTo(MaxLen) :
          arg = [dates |-> s.dates, values |-> s.values, period |-> "1m"]
    /\ ret = NoRet
    /\ pc = "ready"

CallGrowth ==
    /\ pc = "ready"
    /\ ret' = calculateMonthOverMonthGrowth(arg.dates, arg.values)
    /\ pc' = "done"
    /\ UNCHANGED <<store, writing, resp, today, tzEast, arg>>
    /\ UNCHANGED <<fetching, dash>>
    /\ UNCHANGED restVars

NextGrowth == CallGrowth

SpecGrowth == InitGrowth /\ [][NextGrowth]_vars

(***************************************************************************)
(* SpecStored: the server started over a data directory that the update    *)
(* script has filled (series without a row and series of more than two     *)
(* years included) and serving requests; and the two transformers called   *)
(* on arguments that are missing or that hold strings which are not dates. *)
(***************************************************************************)
File(series) == [state |-> "ok", dates |-> series.dates, values |-> series.values]

\* One row in the middle of each of n consecutive months from January 2022.
MonthlySeries(n) ==
    [dates  |-> [k \in 1..n |-> <<2022 + (k - 1) \div 12, ((k - 1) % 12) + 1, 15>>],
     values |-> [k \in 1..n |-> 100 + k]]

StoredFiles ==
    { Missing,
      File([dates |-> <<>>, values |-> <<>>]),
      File([dates |-> << <<2024, 1, 31>>, <<2024, 2, 29>> >>,
            values |-> <<100, 110>>]),
      File(MonthlySeries(MaxMonths - 1)),
      File(MonthlySeries(MaxMonths)) }

\* The data directory: at most MaxStored indicators have a file.
StoredDirs ==
    {dir \in [IndicatorSet -> StoredFiles] :
        Cardinality({ind \in IndicatorSet : dir[ind].state = "ok"}) <= MaxStored}

\* Calls with a missing array, an empty one, and strings that are not dates.
EdgeCalls ==
    { [dates |-> NotGiven, values |-> NotGiven],
      [dates |-> NotGiven, values |-> <<100>>],
      [dates |-> << <<2024, 1, 31>> >>, values |-> NotGiven],
      [dates |-> <<>>, values |-> <<>>],
      [dates |-> <<NotADate>>, values |-> <<100>>],
      [dates |-> <<NotADate, NotADate>>, values |-> <<100, 110>>],
      [dates |-> <<NotADate, <<2024, 1, 31>> >>, values |-> <<100, 110>>],
      [dates |-> << <<2024, 1, 31>> >>, values |-> <<100>>] }

InitStored ==
    /\ NoDashboard
    /\ RestIdle
    /\ writing = NoWrite
    /\ resp = NoResp
    /\ today \in Todays
    /\ ret = NoRet
    /\ \/ /\ store \in StoredDirs
          /\ tzEast = FALSE
          /\ arg = NoArg
          /\ pc = "server"
       \/ /\ store = [ind \in IndicatorSet |-> Missing]
          /\ tzEast \in BOOLEAN
          /\ \E c \in EdgeCalls, p \in Periods :
                arg = [dates |-> c.dates, values |-> c.values, period |-> p]
          /\ pc = "ready"

NextStored ==
    \/ \E query \in Queries : MomentumRequest(query)
    \/ GrowthRequest
    \/ ResponseSent
    \/ CallMomentum
    \/ CallGrowth

SpecStored == InitStored /\ [][NextStored]_vars

(***************************************************************************)
(* SpecTarget: calculateMomentum called on different days, on both sides   *)
(* of UTC, on series of month ends and the days before them.               *)
(***************************************************************************)
TargetSeries ==
    {[dates |-> ds, values |-> [k \in 1..Len(ds) |-> 100 + 10 * (k - 1)]] :
        ds \in {d \in UNION {[1..k -> TargetDates] : k \in 1..MaxTargetLen} :
                  NonDecreasing(d)}}

InitTarget ==
    /\ ServerIdle
    /\ NoDashboard
    /\ RestIdle
    /\ today \in TargetTodays
    /\ tzEast \in BOOLEAN
    /\ \E s \in TargetSeries, p \in Periods :
          arg = [dates |-> s.dates, values |-> s.values, period |-> p]
    /\ ret = NoRet
    /\ pc = "ready"

NextTarget == CallMomentum

SpecTarget == InitTarget /\ [][NextTarget]_vars

(***************************************************************************)
(* SpecFetch: dashboard pages loading their indicators against one server. *)
(* A page goes through the indicators in order: it asks for the local file *)
(* and, when there is none, posts a refresh and waits for the answer.  The *)
(* server starts the provider request of a refresh when the refresh        *)
(* arrives.                                                                *)
(***************************************************************************)
\* The indicator a page is working on.
Current(d) == Indicators[dash[d].i]

\* The for loop of loadAllData moves on to the local file of the next
\* indicator, or ends after the last indicator.
Advanced(page) ==
    IF page.i < Len(Indicators)
    THEN [page EXCEPT !.at = "local", !.i = page.i + 1,
                      !.asked = Append(page.asked, Indicators[page.i + 1])]
    ELSE [page EXCEPT !.at = "idle", !.i = 0]

\* this.allData[indicator] = {...}
Loaded(page, indicator) ==
    [page EXCEPT !.allData = page.allData \cup {indicator}]

\* The catch of refreshData shows the error element of the indicator.
ErrorShown(page, indicator) ==
    [page EXCEPT !.errors = page.errors \cup {indicator}]

\* refreshData: the POST is sent.
Posted(page, indicator) ==
    [page EXCEPT !.at = "refresh", !.posted = Append(page.posted, indicator)]

\* The record a refresh saves when the provider has answered.
Saved(indicator) ==
    File([dates  |-> << <<2024, 1, 31>> >>,
          values |-> << Quote(indicator, <<2024, 1, 31>>, 1) >>])

InitFetch ==
    /\ ServerIdle
    /\ NoDashboard
    /\ RestIdle
    /\ today \in Todays
    /\ tzEast = FALSE
    /\ arg = NoArg
    /\ ret = NoRet
    /\ pc = "server"

\* new EconomicDashboard(): init calls loadAllData, which asks for the local
\* file of the first indicator.
loadAllData(d) ==
    /\ dash[d].at = "closed"
    /\ dash' = [dash EXCEPT ![d] = Advanced([Closed EXCEPT !.at = "local"])]
    /\ UNCHANGED <<store, writing, resp, today, tzEast, arg, ret, pc, fetching>>
    /\ UNCHANGED restVars

\* GET /api/data/:indicator finds the file: the page keeps the series and
\* goes on to the next indicator.
LocalFileLoaded(d) ==
    /\ dash[d].at = "local"
    /\ Readable(store[Current(d)])
    /\ dash' = [dash EXCEPT ![d] = Advanced(Loaded(dash[d], Current(d)))]
    /\ UNCHANGED <<store, writing, resp, today, tzEast, arg, ret, pc, fetching>>
    /\ UNCHANGED restVars

\* A slip of LocalFileMissing: without a local file the page goes on to the
\* next indicator.
LocalFileMissingSkipped(d) ==
    /\ dash[d].at = "local"
    /\ ~Readable(store[Current(d)])
    /\ dash' = [dash EXCEPT ![d] = Advanced(dash[d])]
    /\ UNCHANGED <<store, writing, resp, today, tzEast, arg, ret, pc, fetching>>
    /\ UNCHANGED restVars

\* GET /api/data/:indicator finds no file: the page calls refreshData, whose
\* POST makes the server call fetchFromFRED or fetchFromYahoo.
LocalFileMissing(d) ==
    /\ dash[d].at = "local"
    /\ ~Readable(store[Current(d)])
    /\ dash' = [dash EXCEPT ![d] = Posted(dash[d], Current(d))]
    /\ fetching' = fetching \cup {<<d, Current(d)>>}
    /\ UNCHANGED <<store, writing, resp, today, tzEast, arg, ret, pc>>
    /\ UNCHANGED restVars

\* The provider answers: the server saves the record and answers the page,
\* which goes on to the next indicator.
RefreshSaved(d) ==
    /\ dash[d].at = "refresh"
    /\ <<d, Current(d)>> \in fetching
    /\ ProviderAnswers(Current(d))
    /\ store' = [store EXCEPT ![Current(d)] = Saved(Current(d))]
    /\ fetching' = fetching \ {<<d, Current(d)>>}
    /\ dash' = [dash EXCEPT ![d] = Advanced(Loaded(dash[d], Current(d)))]
    /\ UNCHANGED <<writing, resp, today, tzEast, arg, ret, pc>>
    /\ UNCHANGED restVars

\* The provider request fails: the server answers 500, the page shows the
\* error and goes on to the next indicator.
RefreshError(d) ==
    /\ dash[d].at = "refresh"
    /\ <<d, Current(d)>> \in fetching
    /\ fetching' = fetching \ {<<d, Current(d)>>}
    /\ dash' = [dash EXCEPT ![d] = Advanced(ErrorShown(dash[d], Current(d)))]
    /\ UNCHANGED <<store, writing, resp, today, tzEast, arg, ret, pc>>
    /\ UNCHANGED restVars

NextFetch ==
    \E d \in Dashboards :
        \/ loadAllData(d)
        \/ LocalFileLoaded(d)
        \/ LocalFileMissing(d)
        \/ RefreshSaved(d)
        \/ RefreshError(d)

SpecFetch == InitFetch /\ [][NextFetch]_vars

(***************************************************************************)
(* The estimates file: POST /api/estimates/submit and                      *)
(* DELETE /api/estimates/:id.  A handler reads the file, changes the array *)
(* it read and writes the file; fs.writeFile truncates the file before it  *)
(* writes.  SpecSubmit: submissions sent one after the other, each after   *)
(* the answer to the one before and in a later millisecond.  SpecEstimates:*)
(* submissions and deletions that the server handles at the same time,     *)
(* with the clock advancing freely.                                        *)
(***************************************************************************)
\* "Keep only last 100 submissions"
EstimatesCap == 100

\* The bodies of the submissions: complete, without a name, without estimates.
Bodies ==
    { [name |-> "ann", given |-> TRUE],
      [name |-> "",    given |-> TRUE],
      [name |-> "ann", given |-> FALSE] }

\* The ids a DELETE may name.
Ids == 0..MaxClock

\* newEstimate
NewEstimate(now, name) == [id |-> now, name |-> name]

\* A slip of Submitted: the first 100 entries are kept.
SubmittedKeepingFirst(allEstimates, newEstimate) ==
    LET pushed == Append(allEstimates, newEstimate)
    IN  IF Len(pushed) > EstimatesCap
        THEN SubSeq(pushed, 1, EstimatesCap)
        ELSE pushed

\* allEstimates.push(newEstimate) and slice(-100)
Submitted(allEstimates, newEstimate) ==
    LET pushed == Append(allEstimates, newEstimate)
    IN  IF Len(pushed) > EstimatesCap
        THEN LastN(pushed, EstimatesCap)
        ELSE pushed

\* allEstimates.filter(est => est.id !== parseInt(id))
RECURSIVE Without(_, _)
Without(allEstimates, id) ==
    IF allEstimates = <<>> THEN <<>>
    ELSE LET rest == Without(Tail(allEstimates), id)
         IN  IF Head(allEstimates).id # id
             THEN <<Head(allEstimates)>> \o rest
             ELSE rest

\* fs.readFile and JSON.parse of the estimates file, [] in the catch of submit.
ReadOrEmpty(file) == IF Readable(file) THEN file.list ELSE <<>>

Answered(request, status, success) ==
    [request EXCEPT !.at = "answered", !.status = status, !.success = success]

\* The submissions accepted and those that may still be.
Submissions ==
    Len(clients.accepted)
      + Cardinality({r \in Requests : /\ reqs[r].op = "submit"
                                      /\ reqs[r].at \in {"reading", "writing"}})

\* The request goes to the lowest free handler; senders that do not overlap
\* wait until every earlier request is answered and taken.
MayArrive(r) ==
    /\ pc = "server"
    /\ reqs[r].at = "none"
    /\ \A q \in Requests : q < r => reqs[q].at # "none"
    /\ clients.overlapping \/ \A q \in Requests : reqs[q].at = "none"

\* Senders that wait for the answer send the next request more than a
\* millisecond after the file was saved.
ClockAfterSaving == IF clients.overlapping THEN clock ELSE clock + 1

\* POST /api/estimates/submit up to fs.readFile, or its 400.
SubmitArrived(r, body) ==
    /\ MayArrive(r)
    /\ Submissions < clients.most
    /\ LET request == [NoRequest EXCEPT !.op = "submit", !.name = body.name,
                                        !.given = body.given]
       IN  reqs' = [reqs EXCEPT ![r] =
                      IF body.name = "" \/ ~body.given
                      THEN Answered(request, 400, FALSE)
                      ELSE [request EXCEPT !.at = "reading"]]
    /\ UNCHANGED <<estimates, clock, clients>>
    /\ UNCHANGED <<serverVars, adminVars, chart, script>>

\* The file is read: newEstimate is pushed, the array cut, fs.writeFile begun.
SubmitRead(r) ==
    /\ reqs[r].at = "reading"
    /\ reqs[r].op = "submit"
    /\ LET allEstimates == ReadOrEmpty(estimates)
           newEstimate  == NewEstimate(clock, reqs[r].name)
       IN  reqs' = [reqs EXCEPT ![r] =
                      [@ EXCEPT !.at = "writing", !.id = clock,
                                !.allEstimates = allEstimates,
                                !.saving = Submitted(allEstimates, newEstimate)]]
    /\ estimates' = Truncated
    /\ UNCHANGED <<clock, clients>>
    /\ UNCHANGED <<serverVars, adminVars, chart, script>>

\* fs.writeFile completes and the submission is answered with success.
SubmitWritten(r) ==
    /\ reqs[r].at = "writing"
    /\ reqs[r].op = "submit"
    /\ estimates' = [state |-> "ok", list |-> reqs[r].saving]
    /\ reqs' = [reqs EXCEPT ![r] = Answered(@, 200, TRUE)]
    /\ clients' = [clients EXCEPT !.accepted =
                      Append(@, NewEstimate(reqs[r].id, reqs[r].name))]
    /\ clock' = ClockAfterSaving
    /\ UNCHANGED <<serverVars, adminVars, chart, script>>

\* DELETE /api/estimates/:id up to fs.readFile.
DeleteArrived(r, id) ==
    /\ MayArrive(r)
    /\ reqs' = [reqs EXCEPT ![r] =
                  [NoRequest EXCEPT !.at = "reading", !.op = "delete", !.id = id]]
    /\ UNCHANGED <<estimates, clock, clients>>
    /\ UNCHANGED <<serverVars, adminVars, chart, script>>

\* The file is read: 'No estimates found' when it cannot be read, 'Estimate
\* not found' when the filter removes nothing, fs.writeFile begun otherwise.
DeleteRead(r) ==
    /\ reqs[r].at = "reading"
    /\ reqs[r].op = "delete"
    /\ IF ~Readable(estimates)
       THEN /\ reqs' = [reqs EXCEPT ![r] = Answered(@, 200, FALSE)]
            /\ UNCHANGED estimates
       ELSE LET allEstimates      == estimates.list
                filteredEstimates == Without(allEstimates, reqs[r].id)
            IN  IF Len(filteredEstimates) = Len(allEstimates)
                THEN /\ reqs' = [reqs EXCEPT ![r] =
                                   Answered([@ EXCEPT
                                               !.allEstimates = allEstimates],
                                            200, FALSE)]
                     /\ UNCHANGED estimates
                ELSE /\ reqs' = [reqs EXCEPT ![r] =
                                   [@ EXCEPT !.at = "writing",
                                             !.allEstimates = allEstimates,
                                             !.saving = filteredEstimates]]
                     /\ estimates' = Truncated
    /\ UNCHANGED <<clock, clients>>
    /\ UNCHANGED <<serverVars, adminVars, chart, script>>

\* fs.writeFile completes and the deletion is answered with success.
DeleteWritten(r) ==
    /\ reqs[r].at = "writing"
    /\ reqs[r].op = "delete"
    /\ estimates' = [state |-> "ok", list |-> reqs[r].saving]
    /\ reqs' = [reqs EXCEPT ![r] = Answered(@, 200, TRUE)]
    /\ clients' = [clients EXCEPT !.deleted = @ \cup {reqs[r].id}]
    /\ clock' = ClockAfterSaving
    /\ UNCHANGED <<serverVars, adminVars, chart, script>>

\* The sender has the answer; the handler is gone.
AnswerTaken(r) ==
    /\ reqs[r].at = "answered"
    /\ reqs' = [reqs EXCEPT ![r] = NoRequest]
    /\ UNCHANGED <<estimates, clock, clients>>
    /\ UNCHANGED <<serverVars, adminVars, chart, script>>

\* A millisecond passes.
Tick ==
    /\ pc = "server"
    /\ clients.overlapping
    /\ clock < MaxClock
    /\ clock' = clock + 1
    /\ UNCHANGED <<estimates, reqs, clients>>
    /\ UNCHANGED <<serverVars, adminVars, chart, script>>

\* The server is up, nothing is stored, the senders are about to send.
EstimatesInit(most, overlapping) ==
    /\ ServerIdle
    /\ NoDashboard
    /\ today \in Todays
    /\ tzEast = FALSE
    /\ arg = NoArg
    /\ ret = NoRet
    /\ pc = "server"
    /\ estimates = Missing
    /\ clock = 0
    /\ reqs = [r \in Requests |-> NoRequest]
    /\ clients = [most |-> most, overlapping |-> overlapping,
                  accepted |-> <<>>, deleted |-> {}]
    /\ NoAdmin
    /\ NoChart
    /\ NotRun

InitSubmit == EstimatesInit(MaxSubmissions, FALSE)

NextSubmit ==
    \E r \in Requests :
        \/ \E body \in Bodies : SubmitArrived(r, body)
        \/ SubmitRead(r)
        \/ SubmitWritten(r)
        \/ AnswerTaken(r)

SpecSubmit == InitSubmit /\ [][NextSubmit]_vars

InitEstimates == EstimatesInit(MaxRequests, TRUE)

NextEstimates ==
    \/ \E r \in Requests :
          \/ \E body \in Bodies : SubmitArrived(r, body)
          \/ SubmitRead(r)
          \/ SubmitWritten(r)
          \/ \E id \in Ids : DeleteArrived(r, id)
          \/ DeleteRead(r)
          \/ DeleteWritten(r)
          \/ AnswerTaken(r)
    \/ Tick

SpecEstimates == InitEstimates /\ [][NextEstimates]_vars

(***************************************************************************)
(* SpecAdmin: /api/auth/login and the two routes behind verifyAdmin,       *)
(* POST /api/news/collect and POST /api/news/reset-cost.  A token is the   *)
(* base64 form of the text 'admin:' + Date.now(); it is modelled by the    *)
(* text it decodes to, split into the first six characters and the rest.   *)
(* Every request is handled to its answer before the next one.             *)
(***************************************************************************)
\* process.env.ADMIN_PASSWORD || ''
AdminPasswords == {"", "secret"}

\* req.body.password
Passwords == {"", "secret", "guess"}

\* Buffer.from(`admin:${Date.now()}`).toString('base64')
IssuedToken(now) == [scheme |-> "Bearer", prefix |-> "admin:", stamp |-> now]

\* The Authorization headers a request may carry: none, one that is not a
\* Bearer header, and Bearer headers whose token decodes to 'admin:' or to
\* 'guest:' followed by a number.
Headers ==
    {NoHeader}
      \cup {[scheme |-> sch, prefix |-> pre, stamp |-> n] :
              sch \in {"Basic", "Bearer"}, pre \in {"admin:", "guest:"},
              n \in 0..MaxClock}

\* verifyAdmin calls next()
verifyAdmin(header) ==
    /\ header.scheme = "Bearer"
    /\ header.prefix = "admin:"

\* The news files there may be when the server starts: none, or one with a
\* cost counted by an earlier version.
NewsFiles == {Missing, [state |-> "ok", articles |-> 4, totalCost |-> 7]}

\* The numbers of articles the two searches may return; 0 for a search that
\* fails or finds nothing.
Found == 0..2

GOOGLE_SEARCH_API_KEY == "key"

InitAdmin ==
    /\ ServerIdle
    /\ NoDashboard
    /\ today \in Todays
    /\ tzEast = FALSE
    /\ arg = NoArg
    /\ ret = NoRet
    /\ pc = "server"
    /\ NoEstimates
    /\ NoChart
    /\ NotRun
    /\ admin \in [password : AdminPasswords, issued : {{}},
                   last : {NoAdminRequest}]
    /\ news \in NewsFiles

\* POST /api/auth/login at a time now.
Login(password, now) ==
    /\ pc = "server"
    /\ now >= clock
    /\ clock' = now
    /\ admin' =
          IF password = ""
          THEN [admin EXCEPT !.last = [op |-> "login", header |-> NoHeader,
                                       status |-> 400]]
          ELSE IF password = admin.password
          THEN [admin EXCEPT !.issued = @ \cup {IssuedToken(now)},
                             !.last = [op |-> "login",
                                       header |-> IssuedToken(now),
                                       status |-> 200]]
          ELSE [admin EXCEPT !.last = [op |-> "login", header |-> NoHeader,
                                       status |-> 401]]
    /\ UNCHANGED <<news, estimates, reqs, clients>>
    /\ UNCHANGED <<serverVars, chart, script>>

\* POST /api/news/collect
CollectNews(header, found) ==
    /\ pc = "server"
    /\ IF ~verifyAdmin(header)
       THEN /\ admin' = [admin EXCEPT !.last = [op |-> "collect",
                                                header |-> header,
                                                status |-> 401]]
            /\ UNCHANGED news
       ELSE IF GOOGLE_SEARCH_API_KEY = ""
       THEN /\ admin' = [admin EXCEPT !.last = [op |-> "collect",
                                                header |-> header,
                                                status |-> 400]]
            /\ UNCHANGED news
       ELSE IF found = 0
       THEN /\ admin' = [admin EXCEPT !.last = [op |-> "collect",
                                                header |-> header,
                                                status |-> 500]]
            /\ UNCHANGED news
       ELSE /\ admin' = [admin EXCEPT !.last = [op |-> "collect",
                                                header |-> header,
                                                status |-> 200]]
            /\ news' = [state |-> "ok", articles |-> found, totalCost |-> 0]
    /\ UNCHANGED estimateVars
    /\ UNCHANGED <<serverVars, chart, script>>

\* POST /api/news/reset-cost
ResetCost(header) ==
    /\ pc = "server"
    /\ IF ~verifyAdmin(header)
       THEN /\ admin' = [admin EXCEPT !.last = [op |-> "reset-cost",
                                                header |-> header,
                                                status |-> 401]]
            /\ UNCHANGED news
       ELSE IF ~Readable(news)
       THEN /\ admin' = [admin EXCEPT !.last = [op |-> "reset-cost",
                                                header |-> header,
                                                status |-> 500]]
            /\ UNCHANGED news
       ELSE /\ admin' = [admin EXCEPT !.last = [op |-> "reset-cost",
                                                header |-> header,
                                                status |-> 200]]
            /\ news' = [news EXCEPT !.totalCost = 0]
    /\ UNCHANGED estimateVars
    /\ UNCHANGED <<serverVars, chart, script>>

NextAdmin ==
    \/ \E password \in Passwords, now \in 0..MaxClock : Login(password, now)
    \/ \E header \in Headers, found \in Found : CollectNews(header, found)
    \/ \E header \in Headers : ResetCost(header)

SpecAdmin == InitAdmin /\ [][NextAdmin]_vars

(***************************************************************************)
(* SpecChart: the momentum chart of one dashboard page.  loadMomentumChart *)
(* is called without await by init, after every indicator load or refresh  *)
(* and on every change of the baseline select; each call reads the select,  *)
(* asks the server and, when the response comes, keeps and plots it.  The  *)
(* responses of requests that are out together come in any order.  The     *)
(* data of a response is named by the period that was asked for.           *)
(***************************************************************************)
\* The options of the 'momentum-baseline' select.
BaselineOptions == Periods \ {"other"}

\* The requests for /api/data/momentum?period=... of the page, numbered in
\* the order they are sent.
MomentumRequests == [n : 1..MaxMomentumRequests, period : BaselineOptions]

\* loadMomentumChart up to the fetch: the loading state shows and the request
\* for the period of the select is out.
Requested(c) ==
    [c EXCEPT !.view = "loading", !.sent = c.sent + 1,
              !.out = c.out \cup {[n |-> c.sent + 1, period |-> c.selected]}]

\* The server starts serving and the page is opened: init calls
\* loadMomentumChart with the select at its first option.
InitChart ==
    /\ ServerIdle
    /\ NoDashboard
    /\ today \in Todays
    /\ tzEast = FALSE
    /\ arg = NoArg
    /\ ret = NoRet
    /\ pc = "server"
    /\ NoEstimates
    /\ NoAdmin
    /\ NotRun
    /\ chart = Requested([selected |-> "1m", out |-> {}, sent |-> 0,
                          momentumData |-> "", view |-> "none"])

\* The visitor picks a baseline period: the change handler calls
\* loadMomentumChart.
BaselineChanged(period) ==
    /\ chart.sent < MaxMomentumRequests
    /\ period # chart.selected
    /\ chart' = Requested([chart EXCEPT !.selected = period])
    /\ UNCHANGED <<serverVars, estimateVars, adminVars, script>>

\* An indicator was loaded or refreshed: loadFromLocalFile or refreshData
\* calls loadMomentumChart.
IndicatorLoaded ==
    /\ chart.sent < MaxMomentumRequests
    /\ chart' = Requested(chart)
    /\ UNCHANGED <<serverVars, estimateVars, adminVars, script>>

\* A response with data comes: it is kept in this.momentumData and plotted,
\* the loading state goes and the chart shows.
MomentumShown(request) ==
    /\ request \in chart.out
    /\ chart' = [chart EXCEPT !.out = @ \ {request}, !.view = "chart",
                              !.momentumData = request.period]
    /\ UNCHANGED <<serverVars, estimateVars, adminVars, script>>

\* A response without data or no response comes: the catch shows the error.
MomentumFailed(request) ==
    /\ request \in chart.out
    /\ chart' = [chart EXCEPT !.out = @ \ {request}, !.view = "error"]
    /\ UNCHANGED <<serverVars, estimateVars, adminVars, script>>

NextChart ==
    \/ \E period \in BaselineOptions : BaselineChanged(period)
    \/ IndicatorLoaded
    \/ \E request \in MomentumRequests : MomentumShown(request)
    \/ \E request \in MomentumRequests : MomentumFailed(request)

SpecChart == InitChart /\ [][NextChart]_vars

(***************************************************************************)
(* SpecScript: scripts/update-data.js.  main goes through DATA_SOURCES in  *)
(* the order of its keys, awaits updateIndicator for each, counts the      *)
(* result, waits 3 s before the next and exits.  SpecScriptFair adds that  *)
(* a step that can be taken is taken: every provider request is answered   *)
(* or fails, every file write and every timer completes.                   *)
(***************************************************************************)
\* Object.entries(DATA_SOURCES) of the script.
ScriptIndicators ==
    <<"sp500", "treasury", "oil", "gold", "dollar",
      "nikkei", "topix", "usdjpy", "jgb">>

\* DATA_SOURCES[indicator].type of the script.
ScriptSourceType(indicator) ==
    IF indicator \in {"oil", "dollar", "jgb"} THEN "fred" ELSE "yahoo"

\* process.env.FRED_API_KEY
FredKeys == {"", "key"}

InitScript ==
    /\ ServerIdle
    /\ NoDashboard
    /\ today \in Todays
    /\ tzEast = FALSE
    /\ arg = NoArg
    /\ ret = NoRet
    /\ pc = "script"
    /\ NoEstimates
    /\ NoAdmin
    /\ NoChart
    /\ script \in [at : {"idle"}, i : {0}, key : FredKeys, attempted : {<<>>},
                    saved : {{}}, successCount : {0}, failCount : {0},
                    code : {-1}]

\* The for loop hands an indicator to updateIndicator.
Attempting(s, i) ==
    [s EXCEPT !.at = "updating", !.i = i,
              !.attempted = Append(s.attempted, ScriptIndicators[i])]

\* After the result is counted: the 3 s delay unless the indicator is the
\* last one, then process.exit(failCount > 0 ? 1 : 0).
Counted(s) ==
    IF s.i < Len(ScriptIndicators)
    THEN [s EXCEPT !.at = "waiting"]
    ELSE [s EXCEPT !.at = "exited",
                   !.code = IF s.failCount > 0 THEN 1 ELSE 0]

\* main starts: ensureDataDir, then the first indicator.
main ==
    /\ pc = "script"
    /\ script.at = "idle"
    /\ script' = Attempting(script, 1)
    /\ UNCHANGED <<serverVars, estimateVars, adminVars, chart>>

\* updateIndicator of a fred indicator without FRED_API_KEY returns false.
UpdateSkipped ==
    /\ script.at = "updating"
    /\ ScriptSourceType(ScriptIndicators[script.i]) = "fred"
    /\ script.key = ""
    /\ script' = Counted([script EXCEPT !.failCount = @ + 1])
    /\ UNCHANGED <<serverVars, estimateVars, adminVars, chart>>

\* The provider answers and the file is written: updateIndicator returns true.
UpdateSucceeded ==
    /\ script.at = "updating"
    /\ ScriptSourceType(ScriptIndicators[script.i]) = "fred" => script.key # ""
    /\ script' = Counted([script EXCEPT
                            !.successCount = @ + 1,
                            !.saved = @ \cup {ScriptIndicators[script.i]}])
    /\ UNCHANGED <<serverVars, estimateVars, adminVars, chart>>

\* A slip of UpdateFailed: the error leaves the loop and the script exits.
UpdateFailedLeaving ==
    /\ script.at = "updating"
    /\ ScriptSourceType(ScriptIndicators[script.i]) = "fred" => script.key # ""
    /\ script' = [script EXCEPT !.failCount = @ + 1, !.at = "exited",
                                !.code = 1]
    /\ UNCHANGED <<serverVars, estimateVars, adminVars, chart>>

\* The provider request or the write throws: the catch of updateIndicator
\* returns false.
UpdateFailed ==
    /\ script.at = "updating"
    /\ ScriptSourceType(ScriptIndicators[script.i]) = "fred" => script.key # ""
    /\ script' = Counted([script EXCEPT !.failCount = @ + 1])
    /\ UNCHANGED <<serverVars, estimateVars, adminVars, chart>>

\* The 3 s are over: the loop goes on with the next indicator.
Waited ==
    /\ script.at = "waiting"
    /\ script' = Attempting(script, script.i + 1)
    /\ UNCHANGED <<serverVars, estimateVars, adminVars, chart>>

NextScript ==
    \/ main
    \/ UpdateSkipped
    \/ UpdateSucceeded
    \/ UpdateFailed
    \/ Waited

SpecScript == InitScript /\ [][NextScript]_vars

SpecScriptFair == SpecScript /\ WF_vars(NextScript)

(***************************************************************************)
(* Claims about calculateMomentum (checked under SpecMomentum).            *)
(***************************************************************************)
\* The input value of the first returned point, i.e. the baseline value
\* (meaningful when the result is not empty).
FirstReturnedInput == arg.values[Len(arg.dates) - Len(ret.dates) + 1]

\* C1 as stated: for every non-empty series and every period the first
\* returned value is exactly 100.
C1_AlwaysHundred ==
    (pc = "done" /\ Len(arg.dates) > 0) =>
        (Len(ret.values) > 0 /\ ret.values[1] = Hundred)

\* C1 amended: for every non-empty series and every period the result is
\* not empty and its first value is exactly 100 whenever the value at the
\* baseline is not 0; a baseline value of 0 makes the first value NaN.
C1_HundredUnlessZeroBaseline ==
    (pc = "done" /\ Len(arg.dates) > 0) =>
        /\ Len(ret.values) > 0
        /\ FirstReturnedInput # 0 => ret.values[1] = Hundred
        /\ FirstReturnedInput = 0 => ret.values[1] = NaN

\* A series of several points whose baseline lies inside it and is not 0.
C1_Witness ==
    /\ pc = "done"
    /\ Len(arg.dates) = 3
    /\ Len(ret.dates) = 2
    /\ FirstReturnedInput = 110
    /\ ret.values[1] = Hundred

\* C2: the returned dates are a contiguous suffix of the input dates, the
\* returned values are as many as the returned dates, and the k-th returned
\* value is the input value at the k-th position of the suffix divided by
\* the input value at the first position of the suffix, times 100.
C2_SuffixRebased ==
    pc = "done" =>
        LET n == Len(arg.dates)
            m == Len(ret.dates)
        IN  /\ m <= n
            /\ ret.dates = SubSeq(arg.dates, n - m + 1, n)
            /\ Len(ret.values) = m
            /\ \A k \in 1..m :
                  LET v == arg.values[n - m + k]
                      b == FirstReturnedInput
                      r == ret.values[k]
                  IN  IF b = 0 THEN ~IsFinite(r)
                      ELSE r[2] > 0 /\ r[1] * b = 100 * v * r[2]

\* A proper suffix of two points with different values is returned.
C2_Witness ==
    /\ pc = "done"
    /\ Len(arg.dates) = 3
    /\ Len(ret.dates) = 2
    /\ arg.values = <<0, 100, 110>>
    /\ ret.values = <<Hundred, Frac(110, 1)>>

\* The baseline date string the call computes from its period.
TargetOfCall == ToISODate(TargetDate(today, arg.period), tzEast)

\* a <= b on ISO date strings.
OnOrBefore(a, b) == a = b \/ StrLess(a, b)

\* The input dates on or before the target.
DatesBeforeTarget ==
    {arg.dates[i] : i \in {j \in 1..Len(arg.dates) :
                              OnOrBefore(arg.dates[j], TargetOfCall)}}

\* r is the number v / b * 100.
IsRebased(r, v, b) ==
    IF b = 0 THEN r[2] = 0 /\ r[1] = Sign(v)
    ELSE r[2] > 0 /\ r[1] * b = 100 * v * r[2]

\* C17: when a date of the series is on or before the target date, the
\* result starts at the first index that holds the greatest such date:
\* baselineDate is that date of the series and is the first returned date.
C17_GreatestDateOnOrBeforeTarget ==
    (pc = "done" /\ DatesBeforeTarget # {}) =>
        LET greatest == CHOOSE g \in DatesBeforeTarget :
                            \A e \in DatesBeforeTarget : OnOrBefore(e, g)
            first    == CHOOSE i \in 1..Len(arg.dates) :
                            /\ arg.dates[i] = greatest
                            /\ \A j \in 1..(i - 1) : arg.dates[j] # greatest
        IN  /\ ret.baselineDate = greatest
            /\ ret.dates = SubSeq(arg.dates, first, Len(arg.dates))
            /\ ret.dates[1] = ret.baselineDate
            /\ Len(ret.values) = Len(ret.dates)

\* The target is 2024-01-31 and the series holds 2024-01-30 twice and a later
\* date: the result starts at the first 2024-01-30, which is reported.
C17_Witness ==
    /\ pc = "done"
    /\ TargetOfCall = <<2024, 1, 31>>
    /\ arg.dates = << <<2024, 1, 30>>, <<2024, 1, 30>>, <<2024, 2, 1>> >>
    /\ ret.baselineDate = <<2024, 1, 30>>
    /\ ret.dates = arg.dates

\* C18: when the series is not empty and every date is after the target
\* date, the whole series is returned, every value rebased to the first
\* one, and baselineDate is the first date; and no series with a row gives
\* an empty result.
C18_FallsBackToFirst ==
    pc = "done" =>
        /\ (Len(arg.dates) > 0 /\ DatesBeforeTarget = {}) =>
              /\ ret.dates = arg.dates
              /\ ret.baselineDate = arg.dates[1]
              /\ Len(ret.values) = Len(arg.values)
              /\ \A k \in 1..Len(arg.values) :
                    IsRebased(ret.values[k], arg.values[k], arg.values[1])
        /\ Len(arg.dates) > 0 => Len(ret.dates) > 0

\* Three dates, all after the target of six months back: all three are
\* returned and the first value is 100.
C18_Witness ==
    /\ pc = "done"
    /\ arg.period = "6m"
    /\ arg.dates = << <<2023, 12, 29>>, <<2024, 1, 31>>, <<2024, 4, 1>> >>
    /\ arg.values = <<110, 100, 110>>
    /\ ret.dates = arg.dates
    /\ ret.values = <<Hundred, Frac(1000, 11), Hundred>>
    /\ ret.baselineDate = <<2023, 12, 29>>

(***************************************************************************)
(* Claims about the baseline date (checked under SpecTarget).              *)
(***************************************************************************)
\* The last day of the calendar month that lies back months before the
\* month of a day.
EndOfMonthBack(day, back) ==
    LET count == day[1] * 12 + (day[2] - 1) - back
        y     == count \div 12
        m     == (count % 12) + 1
        last  == CHOOSE d \in 28..31 :
                     /\ d <= 31
                     /\ m \in {4, 6, 9, 11} => d = 30
                     /\ m \in {1, 3, 5, 7, 8, 10, 12} => d = 31
                     /\ m = 2 =>
                           d = IF (y % 4 = 0 /\ y % 100 # 0) \/ y % 400 = 0
                               THEN 29 ELSE 28
    IN  <<y, m, last>>

\* C20 as stated: for period '1m', on every day and in every time zone,
\* the target date of the call is the last day of the calendar month two
\* months before the month of today, whatever the day of the month, so that a
\* series that holds that day is rebased at it.
C20_EndOfMonthBeforePrevious ==
    (pc = "done" /\ arg.period = "1m") =>
        /\ TargetOfCall = EndOfMonthBack(today, 2)
        /\ (\E i \in 1..Len(arg.dates) : arg.dates[i] = EndOfMonthBack(today, 2))
              => ret.baselineDate = EndOfMonthBack(today, 2)

\* The N of a period 'Ny'.
YearsOf(period) ==
    CASE period = "1y" -> 1 [] period = "2y" -> 2 [] period = "3y" -> 3
      [] period = "4y" -> 4 [] OTHER -> 5

YearPeriods == {"1y", "2y", "3y", "4y", "5y"}

\* The day of today N years earlier (the day of the month plays no part).
YearsBack(day, n) == <<day[1] - n, day[2], 1>>

\* The day before a day that is not the first of its month.
DayBefore(day) == <<day[1], day[2], day[3] - 1>>

PeriodOrder == <<"1m", "6m", "1y", "2y", "3y", "4y", "5y">>

\* The dates the call returns for the series of the call and another
\* period.
DatesFor(period) ==
    calculateMomentum(arg.dates, arg.values, period, today, tzEast).dates

\* a is a suffix of b.
IsSuffix(a, b) ==
    /\ Len(a) <= Len(b)
    /\ a = SubSeq(b, Len(b) - Len(a) + 1, Len(b))

\* C24: for the series and the day of a call, the dates returned for a
\* period are a suffix of the dates returned for every longer period and
\* hold as a suffix the dates returned for every shorter one.
C24_ShorterPeriodSuffixOfLonger ==
    pc = "done" =>
        \A i, j \in 1..Len(PeriodOrder) :
            (arg.period = PeriodOrder[i] /\ i < j) =>
                /\ IsSuffix(ret.dates, DatesFor(PeriodOrder[j]))
                /\ IsSuffix(DatesFor(PeriodOrder[i]), DatesFor(PeriodOrder[j]))
                /\ \A k \in 1..(i - 1) :
                      IsSuffix(DatesFor(PeriodOrder[k]), ret.dates)

\* On 2024-02-29 the series 2023-01-31, 2023-12-31 is returned from its
\* second date for '1m' and whole for '1y'.
C24_Witness ==
    /\ pc = "done"
    /\ today = <<2024, 2, 29>>
    /\ ~tzEast
    /\ arg.period = "1m"
    /\ arg.dates = << <<2023, 1, 31>>, <<2023, 12, 31>> >>
    /\ ret.dates = << <<2023, 12, 31>> >>
    /\ DatesFor("1y") = arg.dates

(***************************************************************************)
(* Claims about calculateMonthOverMonthGrowth (checked under SpecGrowth).  *)
(***************************************************************************)
\* The calendar months (year, month) that have an observation in the input.
InputMonths == {<<arg.dates[i][1], arg.dates[i][2]>> : i \in 1..Len(arg.dates)}

MonthBefore(a, b) == a[1] < b[1] \/ (a[1] = b[1] /\ a[2] < b[2])

\* The i-th month present, in chronological order.
MonthAt(i) ==
    CHOOSE a \in InputMonths :
        Cardinality({b \in InputMonths : MonthBefore(b, a)}) = i - 1

\* The value of the last observation of a month: the one with the greatest
\* date, the first of them when that date is repeated.
LastValueOf(month) ==
    LET inMonth == {i \in 1..Len(arg.dates) :
                       <<arg.dates[i][1], arg.dates[i][2]>> = month}
        last    == CHOOSE i \in inMonth :
                       \A j \in inMonth :
                           /\ arg.dates[j][3] <= arg.dates[i][3]
                           /\ arg.dates[j][3] = arg.dates[i][3] => i <= j
    IN  arg.values[last]

\* r is the number (cur - prev) / prev * 100.
IsChange(r, cur, prev) ==
    IF prev = 0 THEN r[2] = 0 /\ r[1] = Sign(cur)
    ELSE r[2] > 0 /\ r[1] * prev = 100 * (cur - prev) * r[2]

\* The three-letter English abbreviation of month m.
Abbrev(m) ==
    CASE m = 1 -> "Jan" [] m = 2 -> "Feb" [] m = 3 -> "Mar" [] m = 4 -> "Apr"
      [] m = 5 -> "May" [] m = 6 -> "Jun" [] m = 7 -> "Jul" [] m = 8 -> "Aug"
      [] m = 9 -> "Sep" [] m = 10 -> "Oct" [] m = 11 -> "Nov" [] OTHER -> "Dec"

LabelOf(month) == <<Abbrev(month[2]), month[1]>>

\* The month a label names.
MonthOfLabel(label) ==
    <<label[2], CHOOSE m \in 1..12 : Abbrev(m) = label[1]>>

\* The calendar month immediately before a month.
CalendarPredecessor(month) ==
    IF month[2] = 1 THEN <<month[1] - 1, 12>> ELSE <<month[1], month[2] - 1>>

\* C6: the result has (distinct months of the input) - 1 entries when the
\* input spans at least two months and none when it spans at most one; it
\* has as many values as dates, and no entry is labelled with the first month
\* present.
C6_OneRowPerMonthButFirst ==
    pc = "done" =>
        LET n == Cardinality(InputMonths)
        IN  /\ Len(ret.dates) = Len(ret.values)
            /\ Len(ret.dates) = (IF n >= 2 THEN n - 1 ELSE 0)
            /\ n >= 1 => \A k \in 1..Len(ret.dates) :
                             ret.dates[k] # LabelOf(MonthAt(1))

\* Three observations in three different months give two entries.
C6_Witness ==
    /\ pc = "done"
    /\ Cardinality(InputMonths) = 3
    /\ Len(ret.dates) = 2

\* C7: with the months present in ascending order, the entry of the i-th
\* month (i >= 2) is (value[month_i] - value[month_i-1]) / value[month_i-1]
\* * 100 and carries the three-letter name and the year of month_i, so the
\* labels are in strictly increasing chronological order; month-end values
\* 100 (Jan 2024) and 110 (Feb 2024) give dates ["Feb 2024"], values [10].
C7_GrowthOfConsecutiveMonthsPresent ==
    pc = "done" =>
        /\ \A i \in 2..Cardinality(InputMonths) :
              /\ i - 1 \in DOMAIN ret.dates
              /\ i - 1 \in DOMAIN ret.values
              /\ ret.dates[i - 1] = LabelOf(MonthAt(i))
              /\ IsChange(ret.values[i - 1],
                          LastValueOf(MonthAt(i)), LastValueOf(MonthAt(i - 1)))
        /\ \A k \in 1..(Len(ret.dates) - 1) :
              MonthBefore(MonthOfLabel(ret.dates[k]),
                          MonthOfLabel(ret.dates[k + 1]))
        /\ (/\ arg.dates = << <<2024, 1, 31>>, <<2024, 2, 29>> >>
            /\ arg.values = <<100, 110>>)
           => (ret.dates = << <<"Feb", 2024>> >> /\ ret.values = << <<10, 1>> >>)

\* The example of the claim.
C7_Witness ==
    /\ pc = "done"
    /\ arg.dates = << <<2024, 1, 31>>, <<2024, 2, 29>> >>
    /\ arg.values = <<100, 110>>
    /\ ret.dates = << <<"Feb", 2024>> >>
    /\ ret.values = << <<10, 1>> >>

\* C8 as stated: every entry is the change from the last observation of the
\* calendar month immediately before its labelled month, also when the
\* input has months without an observation.
C8_AgainstCalendarPredecessor ==
    pc = "done" =>
        \A k \in 1..Len(ret.dates) :
            LET cur  == MonthOfLabel(ret.dates[k])
                prev == CalendarPredecessor(cur)
            IN  /\ prev \in InputMonths
                /\ IsChange(ret.values[k], LastValueOf(cur), LastValueOf(prev))

\* C8 amended: every entry is the change between the last observation of
\* its labelled month and the last observation of the nearest earlier month
\* that has an observation; that month is the calendar month immediately
\* before whenever that calendar month has an observation.
C8_AgainstNearestEarlierMonthPresent ==
    pc = "done" =>
        \A k \in 1..Len(ret.dates) :
            LET cur     == MonthOfLabel(ret.dates[k])
                earlier == {b \in InputMonths : MonthBefore(b, cur)}
            IN  /\ cur \in InputMonths
                /\ earlier # {}
                /\ LET prev == CHOOSE b \in earlier :
                                   \A c \in earlier : c = b \/ MonthBefore(c, b)
                   IN  /\ IsChange(ret.values[k],
                                   LastValueOf(cur), LastValueOf(prev))
                       /\ CalendarPredecessor(cur) \in InputMonths
                             => prev = CalendarPredecessor(cur)

\* An entry for April 2024 computed against February 2024: the input has no
\* observation in March.
C8_Witness ==
    /\ pc = "done"
    /\ arg.dates = << <<2024, 1, 31>>, <<2024, 2, 29>>, <<2024, 4, 1>> >>
    /\ arg.values = <<100, 110, 100>>
    /\ ret.dates = << <<"Feb", 2024>>, <<"Apr", 2024>> >>
    /\ ret.values = << <<10, 1>>, Frac(-100, 11) >>

\* The indices of the input whose observation is the one of its month: no
\* observation of the month has a later date and none before it has the
\* same date.
MonthEnds ==
    {i \in 1..Len(arg.dates) :
        \A j \in 1..Len(arg.dates) :
            (arg.dates[j][1] = arg.dates[i][1] /\ arg.dates[j][2] = arg.dates[i][2])
                => /\ arg.dates[j][3] <= arg.dates[i][3]
                   /\ (arg.dates[j][3] = arg.dates[i][3] => i <= j)}

\* The index in MonthEnds of a month.
EndOf(month) ==
    CHOOSE i \in MonthEnds : <<arg.dates[i][1], arg.dates[i][2]>> = month

\* The input without the observations that are not the one of their month.
MonthEndsOnly ==
    LET Kept(i) == i \in MonthEnds
        kept    == SelectSeq([i \in 1..Len(arg.dates) |-> i], Kept)
    IN  [dates  |-> [k \in 1..Len(kept) |-> arg.dates[kept[k]]],
         values |-> [k \in 1..Len(kept) |-> arg.values[kept[k]]]]

MomentumOf(indicator) ==
    calculateMomentum(store[indicator].dates, store[indicator].values,
                      resp.period, today, tzEast)

\* The indicators that take part in the alignment: their file was read and
\* their momentum series is not empty.
Participants ==
    LET taking == {indicator \in IndicatorSet :
                     /\ Readable(store[indicator])
                     /\ Len(MomentumOf(indicator).dates) > 0}
    IN  {p : p \in taking}

\* The dates every participant has.
DatesOfAll ==
    LET dateSets == {Elements(MomentumOf(p).dates) : p \in Participants}
        common   == {date \in UNION dateSets :
                       \A dateSet \in dateSets : date \in dateSet}
    IN  {date : date \in common}

Zip(dates, values) == [k \in 1..Len(dates) |-> <<dates[k], values[k]>>]

\* The (date, value) pairs of a series whose date is in a set, in order.
PairsOn(series, dateSet) ==
    LET OnDate(pair) == pair[1] \in dateSet
    IN  SelectSeq(Zip(series.dates, series.values), OnDate)

\* The keys of the data of the response held, in the order of the indicator
\* list.
ResponseOrder ==
    LET Returned(indicator) == indicator \in DOMAIN resp.data
    IN  SelectSeq(Indicators, Returned)

\* C3 as stated: in a momentum response every two indicators have the same
\* date array, repeated dates within a series included.
C3_IdenticalDateArrays ==
    resp.kind = "momentum" =>
        \A a, b \in DOMAIN resp.data : resp.data[a].dates = resp.data[b].dates

\* C4: alignment keeps for each indicator exactly the (date, value) pairs
\* of its momentum series whose date every participating indicator has, in
\* their order and with their own values; [d1,d2,d3] and [d2,d3,d4] both
\* become [d2,d3]; an omitted indicator takes no part.
C4_KeepsPairsOnCommonDates ==
    resp.kind = "momentum" =>
        LET parts  == Participants
            common == DatesOfAll
        IN  /\ DOMAIN resp.data = parts
            /\ \A p \in parts :
                  /\ Len(resp.data[p].dates) = Len(resp.data[p].values)
                  /\ Zip(resp.data[p].dates, resp.data[p].values)
                        = PairsOn(MomentumOf(p), common)
            /\ \A a, b \in parts :
                  (/\ parts = {a, b}
                   /\ MomentumOf(a).dates
                         = << <<2024, 1, 30>>, <<2024, 1, 31>>, <<2024, 2, 1>> >>
                   /\ MomentumOf(b).dates
                         = << <<2024, 1, 31>>, <<2024, 2, 1>>, <<2024, 2, 29>> >>)
                  => /\ resp.data[a].dates = << <<2024, 1, 31>>, <<2024, 2, 1>> >>
                     /\ resp.data[b].dates = << <<2024, 1, 31>>, <<2024, 2, 1>> >>

\* The example of the claim, with three indicators omitted.
C4_Witness ==
    /\ resp.kind = "momentum"
    /\ Participants = {"treasury", "gold"}
    /\ MomentumOf("treasury").dates
          = << <<2024, 1, 30>>, <<2024, 1, 31>>, <<2024, 2, 1>> >>
    /\ MomentumOf("gold").dates
          = << <<2024, 1, 31>>, <<2024, 2, 1>>, <<2024, 2, 29>> >>
    /\ resp.data["treasury"].dates = << <<2024, 1, 31>>, <<2024, 2, 1>> >>
    /\ resp.data["gold"].dates = << <<2024, 1, 31>>, <<2024, 2, 1>> >>
    /\ resp.data["treasury"].values
          = SubSeq(MomentumOf("treasury").values, 2, 3)
    /\ resp.data["gold"].values = SubSeq(MomentumOf("gold").values, 1, 2)

\* C5: the alignment step applied to the aligned series of a momentum
\* response returns the same dates and values for every indicator.
C5_AlignmentIdempotent ==
    (resp.kind = "momentum" /\ resp.success) =>
        Aligned(resp.data, ResponseOrder) = resp.data

\* A response whose alignment removed a point from a series and left one.
C5_Witness ==
    /\ resp.kind = "momentum"
    /\ resp.success
    /\ \E a, b \in DOMAIN resp.data :
          /\ a # b
          /\ Len(resp.data[a].dates) > 0
          /\ Len(resp.data[a].dates) < Len(MomentumOf(a).dates)
    /\ Aligned(resp.data, ResponseOrder) = resp.data

\* C9 as stated: in every momentum response no returned date of an
\* indicator is earlier than its baselineDate and the point dated
\* baselineDate is in its series with value 100.
C9_AnchoredAtBaselineDate ==
    resp.kind = "momentum" =>
        \A p \in DOMAIN resp.data :
            LET series == resp.data[p]
            IN  /\ \A k \in 1..Len(series.dates) :
                      ~StrLess(series.dates[k], series.baselineDate)
                /\ \E k \in 1..Len(series.dates) :
                      /\ series.dates[k] = series.baselineDate
                      /\ series.values[k] = Hundred

\* The indicators whose file yields data: for momentum a readable file with
\* a row, for growth a readable file with rows in two different months.
YieldsData(indicator) ==
    /\ Readable(store[indicator])
    /\ IF resp.kind = "momentum" THEN Len(store[indicator].dates) > 0
       ELSE Cardinality({<<d[1], d[2]>> :
                           d \in Elements(store[indicator].dates)}) >= 2

\* C10: in a momentum or growth response an indicator whose file is
\* missing or does not parse is absent from data, every indicator whose file
\* yields data is in data, success says that data is not empty and count is
\* the number of indicators in data.
C10_UnreadableOmittedOthersReturned ==
    resp.kind \in {"momentum", "growth"} =>
        /\ DOMAIN resp.data = {ind \in IndicatorSet : YieldsData(ind)}
        /\ \A ind \in IndicatorSet :
              ~Readable(store[ind]) => ind \notin DOMAIN resp.data
        /\ resp.success = (DOMAIN resp.data # {})
        /\ resp.count = Cardinality(DOMAIN resp.data)

\* A momentum response served while the file of treasury is being rewritten:
\* gold is returned alone.
C10_Witness ==
    /\ resp.kind = "momentum"
    /\ store["treasury"].state = "truncated"
    /\ store["sp500"].state = "missing"
    /\ DOMAIN resp.data = {"gold"}
    /\ resp.success
    /\ resp.count = 1

\* C14 as stated: every file that a momentum or growth request reads, also
\* while a refresh of that indicator is under way, is a complete record (the
\* one before the refresh or the one it writes) with as many values as
\* dates, or is absent because no record was ever written; no request reads
\* a file that is written in part.
C14_ReadersSeeWholeRecords ==
    resp.kind \in {"momentum", "growth"} =>
        \A ind \in IndicatorSet :
            /\ store[ind].state \in {"missing", "ok"}
            /\ store[ind].state = "ok" =>
                  Len(store[ind].dates) = Len(store[ind].values)

NoDateGiven ==
    /\ arg.dates # NotGiven
    /\ arg.values # NotGiven
    /\ \A i \in DOMAIN arg.dates : arg.dates[i] = NotADate

\* The indicators whose stored series has a row.
WithRows ==
    {ind \in IndicatorSet :
        store[ind].state = "ok" /\ Len(store[ind].dates) > 0}

\* C11: calculateMomentum called with an empty or a missing dates array
\* returns empty dates, empty values and baselineDate null; when no entry of
\* dates resolves to a baseline index it returns empty dates and values; and
\* a momentum response leaves out every indicator whose stored series has
\* no row while it returns every indicator whose series has one.
C11_EmptySeriesOmitted ==
    /\ (pc = "done" /\ "baselineDate" \in DOMAIN ret) =>
          /\ (arg.dates = NotGiven \/ arg.dates = <<>>) =>
                ret = [dates |-> <<>>, values |-> <<>>, baselineDate |-> Null]
          /\ NoDateGiven => (ret.dates = <<>> /\ ret.values = <<>>)
    /\ resp.kind = "momentum" =>
          /\ DOMAIN resp.data = WithRows
          /\ resp.success = (WithRows # {})
          /\ resp.count = Cardinality(WithRows)

\* A momentum response over a store where the series of sp500 has no row and
\* the series of gold has rows: gold is returned, sp500 is not.
C11_Witness ==
    /\ resp.kind = "momentum"
    /\ store["sp500"].state = "ok"
    /\ store["sp500"].dates = <<>>
    /\ "sp500" \notin DOMAIN resp.data
    /\ "gold" \in DOMAIN resp.data
    /\ resp.success

\* C12: when the momentum series of the participating indicators have no
\* date in common, the momentum response is a regular one that holds every
\* participating indicator with empty dates and empty values, success true
\* and count the number of participants.
C12_NoCommonDateAllEmpty ==
    (resp.kind = "momentum" /\ Participants # {} /\ DatesOfAll = {}) =>
        /\ DOMAIN resp.data = Participants
        /\ \A p \in DOMAIN resp.data :
              resp.data[p].dates = <<>> /\ resp.data[p].values = <<>>
        /\ resp.success
        /\ resp.count = Cardinality(Participants)

\* Three indicators answer, one with month-end dates and two with mid-month
\* dates: all three are returned empty.
C12_Witness ==
    /\ resp.kind = "momentum"
    /\ Cardinality(Participants) = 3
    /\ \E a, b \in Participants :
          /\ MomentumOf(a).dates = << <<2024, 1, 31>>, <<2024, 2, 29>> >>
          /\ MomentumOf(b).dates = << <<2024, 1, 15>>, <<2024, 2, 15>> >>
    /\ \A p \in Participants :
          resp.data[p].dates = <<>> /\ resp.data[p].values = <<>>
    /\ resp.success
    /\ resp.count = 3

\* The full monthly growth series of the stored series of an indicator.
GrowthOf(indicator) ==
    calculateMonthOverMonthGrowth(store[indicator].dates, store[indicator].values)

\* The last k entries of a sequence of at least k entries.
Trailing(seq, k) == [j \in 1..k |-> seq[Len(seq) - k + j]]

\* C13: in a growth response every returned indicator holds exactly the
\* last min(24, n) dates and values, in order, of its own monthly growth
\* series of n entries, whatever the other indicators hold; the indicators
\* returned are those whose own series has an entry.
C13_OwnTrailingWindow ==
    resp.kind = "growth" =>
        /\ DOMAIN resp.data =
              {ind \in IndicatorSet :
                  store[ind].state = "ok" /\ Len(GrowthOf(ind).dates) > 0}
        /\ \A ind \in DOMAIN resp.data :
              LET full == GrowthOf(ind)
                  n    == Len(full.dates)
                  k    == IF n < 24 THEN n ELSE 24
              IN  /\ resp.data[ind].dates = Trailing(full.dates, k)
                  /\ resp.data[ind].values = Trailing(full.values, k)

\* A growth response with an indicator of more than 24 months of growth,
\* cut to its last 24, next to an indicator with the single month Feb 2024.
C13_Witness ==
    /\ resp.kind = "growth"
    /\ \E a, b \in DOMAIN resp.data :
          /\ Len(GrowthOf(a).dates) > 24
          /\ Len(resp.data[a].dates) = 24
          /\ resp.data[a].dates[24] = <<"Feb", 2024>>
          /\ resp.data[a].dates[1] = <<"Mar", 2022>>
          /\ resp.data[b].dates = << <<"Feb", 2024>> >>
          /\ resp.data[b].values = << <<10, 1>> >>

\* C15: a step that serves a momentum or growth request leaves every file of
\* the store and the write under way as they were, and a call of
\* calculateMomentum or calculateMonthOverMonthGrowth leaves the dates and
\* values it was given as they were.
C15_RequestsAndCallsWriteNothing ==
    [][/\ resp'.kind \in {"momentum", "growth"} =>
             (store' = store /\ writing' = writing)
       /\ pc' = "done" => arg' = arg]_vars

\* A growth response holds the derived series of three stored indicators,
\* one of them cut to 24 months, and the three are still stored whole.
C15_Witness ==
    /\ resp.kind = "growth"
    /\ Cardinality(DOMAIN resp.data) = 3
    /\ \E ind \in DOMAIN resp.data : Len(store[ind].dates) > 25
    /\ \A ind \in DOMAIN resp.data :
          /\ store[ind].state = "ok"
          /\ Len(store[ind].dates) >= 2
          /\ Len(store[ind].dates) = Len(store[ind].values)

(***************************************************************************)
(* Claims about the provider requests (checked under SpecFetch).           *)
(***************************************************************************)
\* C22: while a page loads, the local files asked for are the first
\* indicators of the list in list order, each once; a refresh was posted,
\* once, for exactly the indicators that had no local file when asked, before
\* the next indicator was asked for; every indicator the loop has left
\* has its series in allData or its error shown, not both; and when
\* loadAllData has ended all the indicators have been asked for.
C22_EveryIndicatorLoadedOrRefreshed ==
    \A d \in Dashboards :
        LET page == dash[d]
            done == IF page.at = "idle" THEN Len(Indicators)
                    ELSE IF page.at = "closed" THEN 0 ELSE page.i - 1
            left == {Indicators[k] : k \in 1..done}
        IN  /\ page.at = "idle" => page.asked = Indicators
            /\ page.at \in {"local", "refresh"} =>
                  page.asked = SubSeq(Indicators, 1, page.i)
            /\ \A k, l \in 1..Len(page.posted) :
                  k < l => IndexOf(page.posted[k]) < IndexOf(page.posted[l])
            /\ page.at = "refresh" =>
                  page.posted[Len(page.posted)] = Indicators[page.i]
            /\ page.allData \cup page.errors = left
            /\ page.allData \cap page.errors = {}
            /\ page.errors \subseteq Elements(page.posted)
            /\ \A ind \in left :
                  ind \notin Elements(page.posted) => Readable(store[ind])

\* A page has ended loadAllData: it took treasury from the local file that
\* a refresh of another page had saved, it refreshed gold itself, and it shows
\* an error for the three indicators whose provider refused.
C22_Witness ==
    \E d \in Dashboards :
        /\ dash[d].at = "idle"
        /\ dash[d].asked = Indicators
        /\ dash[d].posted = <<"sp500", "oil", "gold", "dollar">>
        /\ dash[d].allData = {"treasury", "gold"}
        /\ dash[d].errors = {"sp500", "oil", "dollar"}

\* C16 as stated: at every moment at most one provider request is in
\* flight, so the request for the next indicator starts only when the one
\* before has answered or failed, whatever pages are loading.
C16_OneFetchAtATime == Cardinality(fetching) <= 1

(***************************************************************************)
(* Claims about the estimates file (checked under SpecSubmit and           *)
(* SpecEstimates).                                                         *)
(***************************************************************************)
NoRequestUnderWay == \A r \in Requests : reqs[r].at \in {"none", "answered"}

\* C25: when submissions are sent one after the other and none is under
\* way, the estimates file holds at most 100 entries, which are the last
\* submissions answered with success in the order they were sent; and a
\* submission is answered 400, without success, exactly when its body has
\* no name or no estimates, the file staying as it was.
C25_FileHoldsLastHundred ==
    /\ NoRequestUnderWay =>
          /\ Len(ReadOrEmpty(estimates)) <= EstimatesCap
          /\ ReadOrEmpty(estimates) = LastN(clients.accepted, EstimatesCap)
          /\ \A i \in 1..Len(clients.accepted) :
                clients.accepted[i].id = i - 1
    /\ \A r \in Requests :
          reqs[r].at = "answered" =>
              /\ (reqs[r].name = "" \/ ~reqs[r].given) <=>
                    (reqs[r].status = 400)
              /\ reqs[r].success <=> (reqs[r].status = 200)

\* More than 100 submissions have been accepted, the file holds the last
\* 100 of them and a submission without a name has just been answered 400.
C25_Witness ==
    /\ Len(clients.accepted) = EstimatesCap + 1
    /\ Readable(estimates)
    /\ Len(estimates.list) = EstimatesCap
    /\ estimates.list[1] = clients.accepted[2]
    /\ estimates.list[EstimatesCap] = clients.accepted[EstimatesCap + 1]
    /\ \E r \in Requests :
          /\ reqs[r].at = "answered"
          /\ reqs[r].name = ""
          /\ reqs[r].status = 400

\* C26 as stated: under overlapping requests, once no request is under way
\* every submission that was answered with success is in the estimates
\* file unless a deletion of its id was answered with success (the cap of
\* 100 is out of reach of the submissions made).
C26_NoAcceptedSubmissionLost ==
    NoRequestUnderWay =>
        \A i \in 1..Len(clients.accepted) :
            \/ clients.accepted[i] \in Elements(ReadOrEmpty(estimates))
            \/ clients.accepted[i].id \in clients.deleted
            \/ Len(clients.accepted) > EstimatesCap

\* C27 as stated: a deletion that saves the file has removed exactly one
\* entry of the array it read, the one with its id, and kept the others in
\* their order; a deletion answered without success saved nothing; and no
\* two entries of the file have the same id.
C27_DeleteRemovesExactlyOne ==
    /\ \A r \in Requests :
          (reqs[r].op = "delete" /\ reqs[r].at \in {"writing", "answered"}) =>
              IF reqs[r].at = "writing" \/ reqs[r].success
              THEN \E k \in 1..Len(reqs[r].allEstimates) :
                      /\ reqs[r].allEstimates[k].id = reqs[r].id
                      /\ reqs[r].saving =
                            SubSeq(reqs[r].allEstimates, 1, k - 1)
                              \o SubSeq(reqs[r].allEstimates, k + 1,
                                        Len(reqs[r].allEstimates))
              ELSE reqs[r].saving = <<>>
    /\ Readable(estimates) =>
          \A i, j \in 1..Len(estimates.list) :
              i # j => estimates.list[i].id # estimates.list[j].id

(***************************************************************************)
(* Claims about the admin routes (checked under SpecAdmin).                *)
(***************************************************************************)
\* C28 as stated: a news collect or reset-cost request gets past the 401 of
\* verifyAdmin exactly when it carries a token that an earlier successful
\* login issued.
C28_AdminOnlyWithIssuedToken ==
    admin.last.op \in {"collect", "reset-cost"} =>
        (admin.last.status # 401 <=> admin.last.header \in admin.issued)

(***************************************************************************)
(* Claims about the momentum chart of the page (checked under SpecChart).  *)
(***************************************************************************)
\* C29 as stated: when no momentum request is out and the chart shows, the
\* data held and plotted is the response for the period selected last.
C29_LatestSelectionDisplayed ==
    (chart.out = {} /\ chart.view = "chart") =>
        chart.momentumData = chart.selected

(***************************************************************************)
(* Claims about the update script (checked under SpecScriptFair).          *)
(***************************************************************************)
\* The script has exited after it handed every indicator of DATA_SOURCES to
\* updateIndicator once, in the order of the configuration, with every
\* result counted and exit code 0 exactly when nothing failed.
ExitedAfterAll ==
    /\ script.at = "exited"
    /\ script.attempted = ScriptIndicators
    /\ script.successCount + script.failCount = Len(ScriptIndicators)
    /\ script.successCount = Cardinality(script.saved)
    /\ script.code = 0 <=> script.failCount = 0
    /\ script.code \in {0, 1}

====
